---- MODULE Spec2Model ----
(***************************************************************************)
(* Model of the sozo migration engine (crates/sozo/ops/src/migrate/mod.rs). *)
(*                                                                         *)
(* One migration run reads a WorldDiff and a ProfileConfig and walks four   *)
(* phases: ensure_world, sync_resources, sync_permissions and               *)
(* initialize_contracts.  Every `.await` on a network operation is one      *)
(* step of the model; the code that runs between two awaits belongs to the  *)
(* step that ends at the later await.                                       *)
(*                                                                         *)
(* The Invoker, the Declarer, the Deployer, the WorldDiff computation and   *)
(* the world contract live in files that are not part of the sources at     *)
(* hand; they are modelled from their specified contracts.                  *)
(*                                                                         *)
(* The module also models the StarknetProvider of katana                    *)
(* (crates/katana/rpc/provider/src/lib.rs): the lookups of the RPC layer    *)
(* over a storage provider, under a specification of their own,             *)
(* SpecProvider.                                                            *)
(***************************************************************************)
EXTENDS Integers, Sequences, FiniteSets, TLC

VARIABLES
    diff,            \* self.diff: the WorldDiff handed to the current run
    profile_config,  \* self.profile_config
    chain,           \* the remote state behind self.world.account
    pc,              \* position of migrate() in its current run
    phase,           \* number of the phase migrate() is in (1..4, 0 once returned)
    invoker,         \* the current phase's Invoker: its accumulated calls
    declarer,        \* sync_resources' Declarer: the artifacts still to declare
    next_call,       \* invoke_all_sequentially: index of the next call to submit
    log,             \* network operations submitted by the current run, in order
    result,          \* what migrate() returned: "running", "Ok" or an error
    run,             \* number of the current run of migrate()
    store,           \* the storage behind a StarknetProvider
    query,           \* the last StarknetProvider method called, with its argument
    reply            \* what that call returned, or the panic that ended it

\* The state of a migration and the state of a provider.
migration_vars == <<diff, profile_config, chain, pc, phase, invoker, declarer,
                    next_call, log, result, run>>
provider_vars == <<store, query, reply>>

vars == <<diff, profile_config, chain, pc, phase, invoker, declarer, next_call,
          log, result, run, store, query, reply>>

(***************************************************************************)
(* Bounds of the model.                                                    *)
(***************************************************************************)
\* Number of distinct local class artifacts the second contract may carry.
NumClasses == 2
\* Number of runs of migrate() in one behaviour.
MaxRuns == 2

(***************************************************************************)
(* Sequence helpers.                                                       *)
(***************************************************************************)
Range(s) == {s[i] : i \in 1..Len(s)}

RECURSIVE FoldSeq(_, _, _, _)
\* Left fold of Op over s[i..Len(s)], starting from acc.
FoldSeq(Op(_, _), acc, s, i) ==
    IF i > Len(s) THEN acc ELSE FoldSeq(Op, Op(acc, s[i]), s, i + 1)

(***************************************************************************)
(* The resources of the project.                                           *)
(***************************************************************************)
ResourceType == {"Namespace", "Contract", "Model", "Event"}

\* Tags of the project's resources, with their kind.
TypeOf ==
    [t \in {"ns", "ns-c1", "ns-c2", "ns-m1", "ns-e1"} |->
        CASE t = "ns" -> "Namespace"
          [] t \in {"ns-c1", "ns-c2"} -> "Contract"
          [] t = "ns-m1" -> "Model"
          [] OTHER -> "Event"]

Tags == DOMAIN TypeOf

ContractTags == {t \in Tags : TypeOf[t] = "Contract"}

\* A grantee tag that names no resource of the diff.
OrphanTag == "ns-ghost"

\* Addresses that belong to no contract of the project.
ForeignAddresses == {999}

\* For all contracts in a dojo project, addresses are deterministic
\* (self.diff.get_contracts_addresses(self.world.address)).
AddressOf(tag) ==
    CASE tag = "ns-c1" -> 101
      [] tag = "ns-c2" -> 102
      [] OTHER -> 0

\* The class a resource that is Updated carried remotely before the update.
OldClass(class_hash) == class_hash + 10

(***************************************************************************)
(* ResourceDiff: Created(local), Updated(local, remote), Synced(remote).   *)
(* class_hash stands for the resource's local class and the artifact       *)
(* derived from it (class_hash, casm_class_hash, class); remote_class and  *)
(* is_initialized are the remote record's (0 / FALSE when Created).        *)
(***************************************************************************)
Created(tag, class_hash) ==
    [tag |-> tag, type |-> TypeOf[tag], kind |-> "Created",
     class_hash |-> class_hash, remote_class |-> 0, is_initialized |-> FALSE]

Updated(tag, class_hash, is_initialized) ==
    [tag |-> tag, type |-> TypeOf[tag], kind |-> "Updated",
     class_hash |-> class_hash, remote_class |-> OldClass(class_hash),
     is_initialized |-> is_initialized]

Synced(tag, class_hash, is_initialized) ==
    [tag |-> tag, type |-> TypeOf[tag], kind |-> "Synced",
     class_hash |-> class_hash, remote_class |-> class_hash,
     is_initialized |-> is_initialized]

\* self.diff.resources.get(selector)
ResourceOf(d, tag) == CHOOSE r \in Range(d.resources) : r.tag = tag

HasResource(d, tag) == \E r \in Range(d.resources) : r.tag = tag

(***************************************************************************)
(* Calls handed to the Invoker.                                            *)
(***************************************************************************)
Call(entrypoint, target, class_hash, grantee, calldata) ==
    [entrypoint |-> entrypoint, target |-> target, class_hash |-> class_hash,
     grantee |-> grantee, calldata |-> calldata]

RegisterEntrypoints == {"register_contract", "register_model", "register_event"}
UpgradeEntrypoints == {"upgrade_contract", "upgrade_model", "upgrade_event"}
GrantEntrypoints == {"grant_writer", "grant_owner"}

\* Invoker::add_call: the call is appended to the accumulated calls.
add_call(calls, call) == Append(calls, call)

\* Declarer::add_class when the registry forgets that the identifier is present.
add_class_duplicating(classes, class_hash) == Append(classes, class_hash)

\* Declarer::add_class: insertion keyed by the artifact identifier; re-adding
\* an identifier that is present leaves the registry as it is.
add_class(classes, class_hash) ==
    IF class_hash \in Range(classes) THEN classes ELSE Append(classes, class_hash)

\* The accumulators sync_resources hands to its helpers.
Acc(calls, classes) == [invoker |-> calls, declarer |-> classes]

(***************************************************************************)
(* Phase 2: the calls and classes of sync_resources.                       *)
(***************************************************************************)
namespaces_getcalls_op(d, calls, tag) ==
    LET resource == ResourceOf(d, tag) IN
    IF resource.kind = "Created" /\ resource.type = "Namespace"
    THEN add_call(calls, Call("register_namespace", tag, 0, 0, <<>>))
    ELSE calls

\* Returns the calls required to sync the namespaces.
namespaces_getcalls(d, calls) ==
    LET Step(c, tag) == namespaces_getcalls_op(d, c, tag)
    IN FoldSeq(Step, calls, d.namespaces, 1)

\* The helper shared by the three resource kinds: a Created resource of the
\* kind adds its class and a register call, an Updated one its class and an
\* upgrade call.
resource_getcalls(resource, acc, type, register, upgrade) ==
    LET created == resource.kind = "Created" /\ resource.type = type
        updated == resource.kind = "Updated" /\ resource.type = type
    IN  IF created
        THEN Acc(add_call(acc.invoker,
                          Call(register, resource.tag, resource.class_hash, 0, <<>>)),
                 add_class(acc.declarer, resource.class_hash))
        ELSE IF updated
        THEN Acc(add_call(acc.invoker,
                          Call(upgrade, resource.tag, resource.class_hash, 0, <<>>)),
                 add_class(acc.declarer, resource.class_hash))
        ELSE acc

\* contracts_getcalls that takes a Synced contract for an Updated one.
contracts_getcalls_synced(resource, acc) ==
    IF resource.kind = "Synced"
    THEN Acc(add_call(acc.invoker,
                      Call("upgrade_contract", resource.tag, resource.class_hash, 0, <<>>)),
             add_class(acc.declarer, resource.class_hash))
    ELSE resource_getcalls(resource, acc, "Contract", "register_contract", "upgrade_contract")

contracts_getcalls(resource, acc) ==
    resource_getcalls(resource, acc, "Contract", "register_contract", "upgrade_contract")

models_getcalls(resource, acc) ==
    resource_getcalls(resource, acc, "Model", "register_model", "upgrade_model")

events_getcalls(resource, acc) ==
    resource_getcalls(resource, acc, "Event", "register_event", "upgrade_event")

\* sync_resources that registers a namespace where the map's iteration meets it.
sync_resources_getcalls_in_map_order(d) ==
    LET Step(acc, resource) ==
            CASE resource.type = "Contract" -> contracts_getcalls(resource, acc)
              [] resource.type = "Model" -> models_getcalls(resource, acc)
              [] resource.type = "Event" -> events_getcalls(resource, acc)
              [] OTHER -> Acc(namespaces_getcalls_op(d, acc.invoker, resource.tag),
                              acc.declarer)
    IN FoldSeq(Step, Acc(<<>>, <<>>), d.resources, 1)

\* The body of sync_resources up to declare_all: the namespaces first, then
\* every resource of the map in its iteration order.
sync_resources_getcalls(d) ==
    LET Step(acc, resource) ==
            CASE resource.type = "Contract" -> contracts_getcalls(resource, acc)
              [] resource.type = "Model" -> models_getcalls(resource, acc)
              [] resource.type = "Event" -> events_getcalls(resource, acc)
              [] OTHER -> acc
    IN FoldSeq(Step, Acc(namespaces_getcalls(d, <<>>), <<>>), d.resources, 1)

(***************************************************************************)
(* Phase 3: the grant calls of sync_permissions.                           *)
(***************************************************************************)
\* self.diff.get_contracts_addresses: the contracts of the diff, whatever
\* their state, each with its deterministic address.
contract_addresses(d) ==
    {r.tag : r \in {x \in Range(d.resources) : x.type = "Contract"}}

\* The result of a call-collecting loop: the calls, or the error that ended it.
Collected(calls) == [error |-> "", detail |-> "", calls |-> calls]
CollectError(error, detail) == [error |-> error, detail |-> detail, calls |-> <<>>]

\* grant_getcall that grants whatever the remote set holds.
grant_getcall_always(d, acc, target, grantee, remote, entrypoint) ==
    IF acc.error # "" THEN acc
    ELSE IF grantee \notin contract_addresses(d)
    THEN CollectError("OrphanSelectorAddress", grantee)
    ELSE Collected(add_call(acc.calls,
                            Call(entrypoint, target, 0, AddressOf(grantee), <<>>)))

\* grant_getcall that passes over a grantee it cannot resolve.
grant_getcall_skipping_orphan(d, acc, target, grantee, remote, entrypoint) ==
    IF acc.error # "" \/ grantee \notin contract_addresses(d) THEN acc
    ELSE IF <<target, AddressOf(grantee)>> \notin remote
    THEN Collected(add_call(acc.calls,
                            Call(entrypoint, target, 0, AddressOf(grantee), <<>>)))
    ELSE acc

\* One (target, grantee) pair of the loops over local_writers / local_owners.
grant_getcall(d, acc, target, grantee, remote, entrypoint) ==
    IF acc.error # "" THEN acc
    ELSE IF grantee \notin contract_addresses(d)
    THEN CollectError("OrphanSelectorAddress", grantee)
    ELSE IF <<target, AddressOf(grantee)>> \notin remote
    THEN Collected(add_call(acc.calls,
                            Call(entrypoint, target, 0, AddressOf(grantee), <<>>)))
    ELSE acc

\* The loop over one local permission map: every target, every grantee of it.
grants_getcalls(d, acc, local, remote, entrypoint) ==
    LET PerTarget(a, permission) ==
            LET PerGrantee(b, grantee) ==
                    grant_getcall(d, b, permission.target, grantee, remote, entrypoint)
            IN FoldSeq(PerGrantee, a, permission.grantees, 1)
    IN FoldSeq(PerTarget, acc, local, 1)

\* sync_permissions that collects the owners ahead of the writers.
sync_permissions_getcalls_owners_first(d, cfg) ==
    grants_getcalls(d,
        grants_getcalls(d, Collected(<<>>), cfg.local_owners, d.remote_owners,
                        "grant_owner"),
        cfg.local_writers, d.remote_writers, "grant_writer")

\* The body of sync_permissions up to the execution of its batch: the writers,
\* then the owners, into one Invoker.
sync_permissions_getcalls(d, cfg) ==
    grants_getcalls(d,
        grants_getcalls(d, Collected(<<>>), cfg.local_writers, d.remote_writers,
                        "grant_writer"),
        cfg.local_owners, d.remote_owners, "grant_owner")

(***************************************************************************)
(* Phase 4: the init calls of initialize_contracts.                        *)
(***************************************************************************)
\* Felt::from_str: a hexadecimal or decimal literal, -1 standing for Err.
Felt_from_str(arg) ==
    CASE arg = "0x10" -> 16
      [] arg = "7" -> 7
      [] OTHER -> -1

\* init_call_args.get(&tag) on the configured map (an absent map is empty).
init_args_of(cfg, tag) ==
    IF cfg.init_call_args.is_some /\ tag \in DOMAIN cfg.init_call_args.map
    THEN [is_some |-> TRUE, args |-> cfg.init_call_args.map[tag]]
    ELSE [is_some |-> FALSE, args |-> <<>>]

\* do_init that initializes every contract, initialized or not.
do_init_always(resource) == resource.type = "Contract"

\* do_init that takes only a Created contract for one to initialize.
do_init_created_only(resource) == resource.kind = "Created"

\* do_init of initialize_contracts' match on the resource.
do_init(resource) ==
    CASE resource.kind = "Created" -> TRUE
      [] resource.kind = "Updated" -> ~resource.is_initialized
      [] resource.kind = "Synced" -> ~resource.is_initialized
      [] OTHER -> FALSE

\* init_getcall that passes over a contract with no configured arguments.
init_getcall_configured_only(cfg, acc, resource) ==
    IF acc.error # "" \/ resource.type # "Contract" \/ ~do_init(resource)
         \/ ~init_args_of(cfg, resource.tag).is_some
    THEN acc
    ELSE LET args == init_args_of(cfg, resource.tag).args
             bad == {i \in 1..Len(args) : Felt_from_str(args[i]) = -1}
         IN  IF bad # {}
             THEN CollectError("FromStr", args[CHOOSE i \in bad : \A j \in bad : i <= j])
             ELSE Collected(add_call(acc.calls,
                      Call("init_contract", resource.tag, 0, 0,
                           [i \in 1..Len(args) |-> Felt_from_str(args[i])])))

\* One resource of initialize_contracts' loop.
init_getcall(cfg, acc, resource) ==
    IF acc.error # "" \/ resource.type # "Contract" \/ ~do_init(resource) THEN acc
    ELSE LET args == init_args_of(cfg, resource.tag).args
             bad == {i \in 1..Len(args) : Felt_from_str(args[i]) = -1}
         IN  IF bad # {}
             THEN CollectError("FromStr", args[CHOOSE i \in bad : \A j \in bad : i <= j])
             ELSE Collected(add_call(acc.calls,
                      Call("init_contract", resource.tag, 0, 0,
                           [i \in 1..Len(args) |-> Felt_from_str(args[i])])))

\* The body of initialize_contracts up to the execution of its batch.
initialize_contracts_getcalls(d, cfg) ==
    LET Step(acc, resource) == init_getcall(cfg, acc, resource)
    IN FoldSeq(Step, Collected(<<>>), d.resources, 1)

\* do_multicall that is disabled by default.
do_multicall_default_off(cfg) ==
    IF ~cfg.migration.is_some THEN FALSE ELSE ~cfg.migration.disable_multicall

\* Returns whether multicall should be used. By default, it is enabled.
do_multicall(cfg) ==
    IF ~cfg.migration.is_some THEN TRUE ELSE ~cfg.migration.disable_multicall

(***************************************************************************)
(* The remote state: the world contract and the classes the network knows. *)
(***************************************************************************)
Unregistered == [registered |-> FALSE, class_hash |-> 0, is_initialized |-> FALSE]

\* The remote state a diff was computed against.  declared holds the classes
\* known to be declared; a class outside it may or may not be.
ChainOf(d) ==
    [world |-> d.world_status = "Synced",
     declared |-> {r.remote_class : r \in {x \in Range(d.resources) :
                                           x.kind # "Created" /\ x.type # "Namespace"}},
     resources |-> [t \in Tags |->
        IF HasResource(d, t) /\ ResourceOf(d, t).kind # "Created"
        THEN [registered |-> TRUE, class_hash |-> ResourceOf(d, t).remote_class,
              is_initialized |-> ResourceOf(d, t).is_initialized]
        ELSE Unregistered],
     writers |-> d.remote_writers,
     owners |-> d.remote_owners]

\* The effect of one committed call of the world contract.
ApplyCall(c, call) ==
    CASE call.entrypoint = "register_namespace" ->
            [c EXCEPT !.resources[call.target] =
                [registered |-> TRUE, class_hash |-> 0, is_initialized |-> FALSE]]
      [] call.entrypoint \in RegisterEntrypoints ->
            [c EXCEPT !.resources[call.target] =
                [registered |-> TRUE, class_hash |-> call.class_hash,
                 is_initialized |-> FALSE]]
      [] call.entrypoint \in UpgradeEntrypoints ->
            [c EXCEPT !.resources[call.target].class_hash = call.class_hash]
      [] call.entrypoint = "grant_writer" ->
            [c EXCEPT !.writers = @ \cup {<<call.target, call.grantee>>}]
      [] call.entrypoint = "grant_owner" ->
            [c EXCEPT !.owners = @ \cup {<<call.target, call.grantee>>}]
      [] call.entrypoint = "init_contract" ->
            [c EXCEPT !.resources[call.target].is_initialized = TRUE]
      [] OTHER -> c

ApplyCalls(c, calls) == FoldSeq(ApplyCall, c, calls, 1)

\* WorldDiff recomputed from the local project (the classes the previous
\* diff names) and the current remote state.
ComputeDiff(d, c) ==
    [world_status |-> IF c.world THEN "Synced" ELSE d.world_status,
     namespaces |-> d.namespaces,
     resources |-> [i \in 1..Len(d.resources) |->
        LET r == d.resources[i]
            remote == c.resources[r.tag]
        IN  IF ~remote.registered THEN Created(r.tag, r.class_hash)
            ELSE IF r.type = "Namespace" THEN Synced(r.tag, r.class_hash, FALSE)
            ELSE IF remote.class_hash = r.class_hash
            THEN Synced(r.tag, r.class_hash, remote.is_initialized)
            ELSE [Updated(r.tag, r.class_hash, remote.is_initialized)
                    EXCEPT !.remote_class = remote.class_hash]],
     remote_writers |-> c.writers,
     remote_owners |-> c.owners]

(***************************************************************************)
(* The network operations a run submits, as they are logged.               *)
(***************************************************************************)
Op(kind, class_hash, calls, outcome) ==
    [op |-> kind, phase |-> phase, class_hash |-> class_hash, calls |-> calls,
     outcome |-> outcome]

\* What a declare of class_hash can answer.
DeclareOutcomes(class_hash) ==
    IF class_hash \in chain.declared THEN {"already", "failed"}
    ELSE {"ok", "already", "failed"}

\* What an invoke or a multicall can answer: a world that is not deployed
\* answers no call.
InvokeOutcomes == IF chain.world THEN {"ok", "failed"} ELSE {"failed"}

\* The class of the world contract itself.
WorldClass == 100

(***************************************************************************)
(* The control flow of migrate() and of its phases.                        *)
(***************************************************************************)
\* migrate() with sync_permissions ahead of sync_resources.
migrate_phases_permissions_first ==
    <<"ensure_world", "sync_permissions", "sync_resources", "initialize_contracts">>

\* The phases of migrate(), in the order it awaits them.
migrate_phases ==
    <<"ensure_world", "sync_resources", "sync_permissions", "initialize_contracts">>

\* sync_resources that executes its batch ahead of declare_all.
sync_resources_steps_invoke_first == <<"execute", "declare_all">>

\* What sync_resources awaits once its calls are collected.
sync_resources_steps == <<"declare_all", "execute">>

\* What a phase awaits once its calls are collected.
PhaseSteps(name) ==
    IF name = "sync_resources" THEN sync_resources_steps ELSE <<"execute">>

\* What migrate() returns: "Ok", or the kind of a MigrationError with what it
\* carries (the offending tag or value, the failing call, the calls committed).
Returned(kind, detail, call, committed) ==
    [error |-> kind, detail |-> detail, call |-> call, committed |-> committed]

Running == Returned("running", "", 0, 0)

\* Where migrate() stands: a position of the program and the value returned.
At(p, position, returned) == [phase |-> p, pc |-> position, result |-> returned]

\* The start of phase p, or the successful return once the phases are over.
EnterPhase(p) ==
    IF p > Len(migrate_phases) THEN At(0, "done", Returned("Ok", "", 0, 0))
    ELSE At(p, migrate_phases[p], result)

\* migrate() that goes on to the next phase when a phase fails.
Fail_and_continue(error) == EnterPhase(phase + 1)

\* The `?` of migrate(): the error is returned at once.
Fail(error) == At(0, "done", error)

\* The position after step `position` of the current phase.
StepAfter(position) ==
    LET steps == PhaseSteps(migrate_phases[phase])
        i == CHOOSE k \in 1..Len(steps) : steps[k] = position
    IN  IF i < Len(steps) THEN At(phase, steps[i + 1], result)
        ELSE EnterPhase(phase + 1)

\* The first step of the current phase once its calls are collected.
FirstStep == At(phase, PhaseSteps(migrate_phases[phase])[1], result)

Goto(where) ==
    /\ pc' = where.pc
    /\ phase' = where.phase
    /\ result' = where.result


(***************************************************************************)
(* The contracts of the Declarer and of the Invoker towards the network.   *)
(***************************************************************************)
\* Declarer::declare that takes "already declared" for a failure.
declare_succeeded_strict(outcome) == outcome = "ok"

\* Declarer::declare: an "already declared" answer is a success.
declare_succeeded(outcome) == outcome \in {"ok", "already"}

\* Invoker::multicall that leaves the first call of a failed batch committed.
multicall_commit_partial(c, calls, outcome) ==
    IF outcome = "ok" THEN ApplyCalls(c, calls) ELSE ApplyCall(c, calls[1])

\* Invoker::multicall: what one multicall transaction commits.
multicall_commit(c, calls, outcome) ==
    IF outcome = "ok" THEN ApplyCalls(c, calls) ELSE c

\* The result of submitting one call of invoke_all_sequentially: the index of
\* the next call to submit, or the error that ends the loop.
Invoked(n, failed, error) == [next_call |-> n, failed |-> failed, error |-> error]

\* Invoker::invoke_all_sequentially that goes on after a failed call.
invoke_next_ignoring_failure(n, outcome) == Invoked(n + 1, FALSE, Running)

\* Invoker::invoke_all_sequentially, call number n answered: the next call
\* follows a success; a failure is reported with the failing call and the
\* number of calls committed before it.
invoke_next(n, outcome) ==
    IF outcome = "ok" THEN Invoked(n + 1, FALSE, Running)
    ELSE Invoked(n, TRUE, Returned("ExecutionError", "", n, n - 1))

(***************************************************************************)
(* Phase 1: ensure_world.                                                  *)
(***************************************************************************)
\* ensure_world that deploys whatever the declaration answered.
EnsureWorld_deploying_undeclared ==
    /\ pc = "ensure_world"
    /\ UNCHANGED provider_vars
    /\ UNCHANGED <<diff, profile_config, invoker, declarer, next_call, run>>
    /\ IF diff.world_status = "NewVersion"
       THEN \E outcome \in DeclareOutcomes(WorldClass) :
              /\ log' = Append(log, Op("declare", WorldClass, <<>>, outcome))
              /\ Goto(At(phase, "deploy_world", result))
              /\ chain' = IF declare_succeeded(outcome)
                          THEN [chain EXCEPT !.declared = @ \cup {WorldClass}]
                          ELSE chain
       ELSE /\ Goto(EnterPhase(phase + 1))
            /\ UNCHANGED <<chain, log>>

\* ensure_world up to the await of Declarer::declare: nothing to do unless
\* the world status is NewVersion.
EnsureWorld ==
    /\ pc = "ensure_world"
    /\ UNCHANGED provider_vars
    /\ UNCHANGED <<diff, profile_config, invoker, declarer, next_call, run>>
    /\ IF diff.world_status = "NewVersion"
       THEN \E outcome \in DeclareOutcomes(WorldClass) :
              /\ log' = Append(log, Op("declare", WorldClass, <<>>, outcome))
              /\ IF ~declare_succeeded(outcome)
                 THEN /\ Goto(Fail(Returned("DeclarationError", "", 0, 0)))
                      /\ UNCHANGED chain
                 ELSE /\ Goto(At(phase, "deploy_world", result))
                      /\ chain' = [chain EXCEPT !.declared = @ \cup {WorldClass}]
       ELSE /\ Goto(EnterPhase(phase + 1))
            /\ UNCHANGED <<chain, log>>

\* ensure_world from the declaration to the await of deploy_via_udc.
DeployWorld ==
    /\ pc = "deploy_world"
    /\ UNCHANGED provider_vars
    /\ UNCHANGED <<diff, profile_config, invoker, declarer, next_call, run>>
    /\ \E outcome \in {"ok", "failed"} :
         /\ log' = Append(log, Op("deploy", WorldClass, <<>>, outcome))
         /\ IF outcome = "failed"
            THEN /\ Goto(Fail(Returned("DeploymentError", "", 0, 0)))
                 /\ UNCHANGED chain
            ELSE /\ Goto(EnterPhase(phase + 1))
                 /\ chain' = [chain EXCEPT !.world = TRUE]

(***************************************************************************)
(* Phase 2: sync_resources.                                                *)
(***************************************************************************)
\* sync_resources up to declare_all: a fresh Invoker and a fresh Declarer
\* are filled from the diff.
SyncResources ==
    /\ pc = "sync_resources"
    /\ UNCHANGED provider_vars
    /\ invoker' = sync_resources_getcalls(diff).invoker
    /\ declarer' = sync_resources_getcalls(diff).declarer
    /\ next_call' = 1
    /\ Goto(FirstStep)
    /\ UNCHANGED <<diff, profile_config, chain, log, run>>

\* Declarer::declare_all: one declare per artifact of the registry, in the
\* registry's iteration order; "already declared" counts as success, any
\* other failure ends the loop.
DeclareAll ==
    /\ pc = "declare_all"
    /\ UNCHANGED provider_vars
    /\ UNCHANGED <<diff, profile_config, invoker, next_call, run>>
    /\ IF declarer = <<>>
       THEN /\ Goto(StepAfter("declare_all"))
            /\ UNCHANGED <<chain, log, declarer>>
       ELSE \E i \in 1..Len(declarer) : \E outcome \in DeclareOutcomes(declarer[i]) :
              /\ log' = Append(log, Op("declare", declarer[i], <<>>, outcome))
              /\ IF ~declare_succeeded(outcome)
                 THEN /\ Goto(Fail(Returned("DeclarationError", "", 0, 0)))
                      /\ UNCHANGED <<chain, declarer>>
                 ELSE /\ chain' = [chain EXCEPT !.declared = @ \cup {declarer[i]}]
                      /\ declarer' = [k \in 1..(Len(declarer) - 1) |->
                                        IF k < i THEN declarer[k] ELSE declarer[k + 1]]
                      /\ UNCHANGED <<pc, phase, result>>

(***************************************************************************)
(* The execution of a phase's batch.                                       *)
(***************************************************************************)
\* Invoker::multicall that submits a transaction for an empty batch too.
Multicall_submitting_empty ==
    /\ pc = "execute"
    /\ UNCHANGED provider_vars
    /\ do_multicall(profile_config)
    /\ UNCHANGED <<diff, profile_config, declarer, next_call, run>>
    /\ \E outcome \in InvokeOutcomes :
          /\ log' = Append(log, Op("multicall", 0, invoker, outcome))
          /\ chain' = IF invoker = <<>> THEN chain
                      ELSE multicall_commit(chain, invoker, outcome)
          /\ IF outcome = "failed"
             THEN /\ Goto(Fail(Returned("ExecutionError", "", 0, 0)))
                  /\ UNCHANGED invoker
             ELSE /\ invoker' = <<>>
                  /\ Goto(StepAfter("execute"))

\* Invoker::multicall: the accumulated calls as one transaction, which
\* commits all of them or none; nothing is submitted for an empty batch.
Multicall ==
    /\ pc = "execute"
    /\ UNCHANGED provider_vars
    /\ do_multicall(profile_config)
    /\ UNCHANGED <<diff, profile_config, declarer, next_call, run>>
    /\ IF invoker = <<>>
       THEN /\ Goto(StepAfter("execute"))
            /\ UNCHANGED <<chain, log, invoker>>
       ELSE \E outcome \in InvokeOutcomes :
              /\ log' = Append(log, Op("multicall", 0, invoker, outcome))
              /\ chain' = multicall_commit(chain, invoker, outcome)
              /\ IF outcome = "failed"
                 THEN /\ Goto(Fail(Returned("ExecutionError", "", 0, 0)))
                      /\ UNCHANGED invoker
                 ELSE /\ invoker' = <<>>
                      /\ Goto(StepAfter("execute"))

\* Invoker::invoke_all_sequentially: each accumulated call as a transaction
\* of its own, in insertion order, the next one once the previous settled;
\* the first failure ends the loop.
InvokeAllSequentially ==
    /\ pc = "execute"
    /\ UNCHANGED provider_vars
    /\ ~do_multicall(profile_config)
    /\ UNCHANGED <<diff, profile_config, declarer, run>>
    /\ IF next_call > Len(invoker)
       THEN /\ Goto(StepAfter("execute"))
            /\ invoker' = <<>>
            /\ next_call' = 1
            /\ UNCHANGED <<chain, log>>
       ELSE \E outcome \in InvokeOutcomes :
              /\ log' = Append(log, Op("invoke", 0, <<invoker[next_call]>>, outcome))
              /\ UNCHANGED invoker
              /\ chain' = IF outcome = "ok" THEN ApplyCall(chain, invoker[next_call])
                          ELSE chain
              /\ next_call' = invoke_next(next_call, outcome).next_call
              /\ IF invoke_next(next_call, outcome).failed
                 THEN Goto(Fail(invoke_next(next_call, outcome).error))
                 ELSE UNCHANGED <<pc, phase, result>>

(***************************************************************************)
(* Phase 3 and phase 4: the collection of the calls.                       *)
(***************************************************************************)
\* The end of a collecting loop that drops the error of the loop.
Collect_ignoring_error(collected) ==
    /\ next_call' = 1
    /\ Goto(FirstStep)
    /\ invoker' = collected.calls

\* The end of a collecting loop: its error is returned, or its calls are the
\* phase's batch.
Collect(collected) ==
    /\ next_call' = 1
    /\ IF collected.error # ""
       THEN /\ Goto(Fail(Returned(collected.error, collected.detail, 0, 0)))
            /\ invoker' = <<>>
       ELSE /\ Goto(FirstStep)
            /\ invoker' = collected.calls

\* sync_permissions up to the execution of its batch.
SyncPermissions ==
    /\ pc = "sync_permissions"
    /\ UNCHANGED provider_vars
    /\ Collect(sync_permissions_getcalls(diff, profile_config))
    /\ UNCHANGED <<diff, profile_config, chain, declarer, log, run>>

\* initialize_contracts up to the execution of its batch.
InitializeContracts ==
    /\ pc = "initialize_contracts"
    /\ UNCHANGED provider_vars
    /\ Collect(initialize_contracts_getcalls(diff, profile_config))
    /\ UNCHANGED <<diff, profile_config, chain, declarer, log, run>>

(***************************************************************************)
(* A further run: the caller recomputes the diff against the remote state  *)
(* a successful run left and migrates again.                               *)
(***************************************************************************)
Rerun ==
    /\ pc = "done"
    /\ UNCHANGED provider_vars
    /\ result.error = "Ok"
    /\ run < MaxRuns
    /\ run' = run + 1
    /\ diff' = ComputeDiff(diff, chain)
    /\ Goto(At(1, migrate_phases[1], Running))
    /\ invoker' = <<>>
    /\ declarer' = <<>>
    /\ next_call' = 1
    /\ log' = <<>>
    /\ UNCHANGED <<profile_config, chain>>

Next ==
    \/ EnsureWorld
    \/ DeployWorld
    \/ SyncResources
    \/ DeclareAll
    \/ Multicall
    \/ InvokeAllSequentially
    \/ SyncPermissions
    \/ InitializeContracts
    \/ Rerun

(***************************************************************************)
(* The inputs of a run: the diffs and the configurations migrate() is      *)
(* started with.                                                           *)
(***************************************************************************)
\* The states one resource can be diffed to, its remote record carrying one
\* of the given is_initialized flags (a field of remote contracts only).
ResourceStates(tag, classes, initialized) ==
    LET flags == IF TypeOf[tag] = "Contract" THEN initialized ELSE {FALSE}
    IN  {Created(tag, c) : c \in classes}
        \cup {Updated(tag, c, i) : c \in classes, i \in flags}
        \cup {Synced(tag, c, i) : c \in classes, i \in flags}

\* A diff is one the diff computation can produce: a world that is not
\* deployed has no remote resource and no remote grant, and only a resource
\* that exists remotely has remote grants.
WellFormed(d) ==
    /\ d.world_status = "NotDeployed" =>
          /\ \A r \in Range(d.resources) : r.kind = "Created"
    /\ \A g \in d.remote_writers \cup d.remote_owners :
          /\ HasResource(d, g[1])
          /\ ResourceOf(d, g[1]).kind # "Created"

Diffs(worlds, orders, ns, c1, c2, m1, e1, remote_writers, remote_owners) ==
    LET of == [w \in worlds, o \in orders, a \in ns, b \in c1, c \in c2, m \in m1,
               e \in e1, rw \in remote_writers, ro \in remote_owners |->
                 LET resource == [t \in Tags |->
                        CASE t = "ns" -> a [] t = "ns-c1" -> b [] t = "ns-c2" -> c
                          [] t = "ns-m1" -> m [] OTHER -> e]
                 IN [world_status |-> w,
                     namespaces |-> <<"ns">>,
                     resources |-> [i \in 1..Len(o) |-> resource[o[i]]],
                     remote_writers |-> rw,
                     remote_owners |-> ro]]
    IN  {d \in {of[x] : x \in DOMAIN of} : WellFormed(d)}

Configs(migrations, local_writers, local_owners, init_call_args) ==
    {[migration |-> m, local_writers |-> lw, local_owners |-> lo,
      init_call_args |-> a] :
        m \in migrations, lw \in local_writers, lo \in local_owners,
        a \in init_call_args}

\* profile_config.migration: absent, or present with its disable_multicall.
NoMigration == [is_some |-> FALSE, disable_multicall |-> FALSE]
Migration(disable_multicall) == [is_some |-> TRUE, disable_multicall |-> disable_multicall]

\* profile_config.init_call_args: absent, or a map from tag to arguments.
NoInitCallArgs == [is_some |-> FALSE, map |-> <<>>]
InitCallArgs(map) == [is_some |-> TRUE, map |-> map]

\* One entry of get_local_writers / get_local_owners.
Permission(target, grantees) == [target |-> target, grantees |-> grantees]

\* The iteration orders of the resource map that are explored.
MapOrder == <<"ns", "ns-c1", "ns-c2", "ns-m1", "ns-e1">>
MapOrderReversed == <<"ns-e1", "ns-m1", "ns-c2", "ns-c1", "ns">>
MapOrderMixed == <<"ns-m1", "ns-c2", "ns", "ns-e1", "ns-c1">>

WorldStatus == {"NotDeployed", "NewVersion", "Synced"}

\* A migration has no provider of its own: it reaches the network through
\* the account of its world contract.
NoStore == [blocks |-> <<>>]
NoQuery == [method |-> "", argument |-> <<>>]
NoReply == [kind |-> "", value |-> <<>>]

\* The state after Migration::new(diff, world, txn_config, profile_config).
InitOver(diffs, configs) ==
    /\ diff \in diffs
    /\ profile_config \in configs
    /\ chain = ChainOf(diff)
    /\ pc = migrate_phases[1]
    /\ phase = 1
    /\ invoker = <<>>
    /\ declarer = <<>>
    /\ next_call = 1
    /\ log = <<>>
    /\ result = Running
    /\ run = 1
    /\ store = NoStore
    /\ query = NoQuery
    /\ reply = NoReply

\* Every world status, under a diff of new resources and, where the world
\* exists, a diff of new, updated and synced ones.
InitWorlds ==
    InitOver(
        Diffs(WorldStatus, {MapOrder},
              {Created("ns", 0), Synced("ns", 0, FALSE)},
              {Created("ns-c1", 1), Updated("ns-c1", 1, FALSE)},
              {Created("ns-c2", 2), Synced("ns-c2", 2, TRUE)},
              {Created("ns-m1", 2)},
              {Created("ns-e1", 1), Updated("ns-e1", 1, FALSE)},
              {{}}, {{}}),
        Configs({NoMigration, Migration(FALSE), Migration(TRUE)},
                {<<Permission("ns-m1", <<"ns-c1">>)>>,
                 <<Permission("ns-m1", <<OrphanTag>>)>>},
                {<<Permission("ns", <<"ns-c2">>)>>},
                {NoInitCallArgs}))

\* Every kind of diff of every resource, the second contract carrying any
\* class, under one permission setting.
InitResources ==
    InitOver(
        Diffs({"Synced"}, {MapOrder},
              {Created("ns", 0), Synced("ns", 0, FALSE)},
              ResourceStates("ns-c1", {1}, {TRUE}),
              ResourceStates("ns-c2", 1..NumClasses, {TRUE}),
              ResourceStates("ns-m1", {2}, {FALSE}),
              ResourceStates("ns-e1", {2}, {FALSE}),
              {{}}, {{}}),
        Configs({NoMigration, Migration(TRUE)},
                {<<Permission("ns-m1", <<"ns-c1">>)>>},
                {<<Permission("ns", <<"ns-c2">>)>>},
                {NoInitCallArgs}))

\* Every kind of diff of the namespace, under three iteration orders of the
\* map and a few diffs of the resources of the namespace.
InitNamespaces ==
    InitOver(
        Diffs({"Synced"}, {MapOrder, MapOrderReversed, MapOrderMixed},
              ResourceStates("ns", {0}, {FALSE}),
              {Created("ns-c1", 1), Updated("ns-c1", 1, TRUE)},
              {Synced("ns-c2", 1, TRUE)},
              {Created("ns-m1", 2), Synced("ns-m1", 2, FALSE)},
              {Updated("ns-e1", 2, FALSE)},
              {{}}, {{}}),
        Configs({NoMigration, Migration(TRUE)},
                {<<>>},
                {<<>>},
                {NoInitCallArgs}))

\* The project of one new namespace and one new contract in it, the contract
\* a writer of itself, on a world that is deployed.
InitScenario ==
    InitOver(
        Diffs({"Synced"}, {<<"ns", "ns-c1">>, <<"ns-c1", "ns">>},
              {Created("ns", 0)},
              {Created("ns-c1", 1)},
              {Created("ns-c2", 1)},
              {Created("ns-m1", 1)},
              {Created("ns-e1", 1)},
              {{}}, {{}}),
        Configs({NoMigration, Migration(TRUE)},
                {<<Permission("ns-c1", <<"ns-c1">>)>>},
                {<<>>},
                {NoInitCallArgs}))

\* Every local and remote permission setting, under a few diffs.
InitPermissions ==
    InitOver(
        Diffs({"Synced"}, {MapOrder},
              {Synced("ns", 0, FALSE)},
              {Created("ns-c1", 1), Synced("ns-c1", 1, TRUE)},
              {Synced("ns-c2", 1, TRUE)},
              {Created("ns-m1", 2), Synced("ns-m1", 2, FALSE)},
              {Synced("ns-e1", 2, FALSE)},
              SUBSET ({"ns-m1"} \X ({AddressOf(t) : t \in ContractTags}
                                     \cup ForeignAddresses)),
              SUBSET ({"ns"} \X ({AddressOf("ns-c1")} \cup ForeignAddresses))),
        Configs({NoMigration, Migration(TRUE)},
                {<<>>,
                 <<Permission("ns-m1", <<"ns-c1">>)>>,
                 <<Permission("ns-m1", <<"ns-c1", "ns-c2">>)>>,
                 <<Permission("ns-e1", <<"ns-c2">>), Permission("ns-m1", <<"ns-c1">>)>>,
                 <<Permission("ns-m1", <<"ns-c1", OrphanTag>>)>>,
                 <<Permission("ns-m1", <<"ns-m1">>)>>},
                {<<>>,
                 <<Permission("ns", <<"ns-c1">>)>>,
                 <<Permission("ns", <<OrphanTag>>)>>},
                {NoInitCallArgs}))

\* Every setting of the init call arguments and of the execution mode, under
\* every state of the two contracts and two iteration orders of the map.
InitArguments ==
    InitOver(
        Diffs({"Synced"}, {MapOrder, MapOrderReversed},
              {Synced("ns", 0, FALSE)},
              ResourceStates("ns-c1", {1}, BOOLEAN),
              ResourceStates("ns-c2", {1}, BOOLEAN),
              {Synced("ns-m1", 2, FALSE)},
              {Synced("ns-e1", 2, FALSE)},
              {{}}, {{}}),
        Configs({NoMigration, Migration(FALSE), Migration(TRUE)},
                {<<>>},
                {<<>>},
                {NoInitCallArgs,
                 InitCallArgs(<<>>),
                 InitCallArgs([t \in {"ns-c1"} |-> <<"0x10", "7">>]),
                 InitCallArgs([t \in ContractTags |->
                                 IF t = "ns-c1" THEN <<"0x10">> ELSE <<"bad">>]),
                 InitCallArgs([t \in {"ns-c1"} |-> <<"7", "bad", "worse">>])}))

Init ==
    \/ InitWorlds \/ InitResources \/ InitNamespaces
    \/ InitScenario \/ InitPermissions \/ InitArguments

Spec == Init /\ [][Next]_vars

(***************************************************************************)
(* What the log of a run tells.                                            *)
(***************************************************************************)
\* The calls the run has submitted, and those the network has committed.
Submitted == UNION {Range(log[i].calls) : i \in 1..Len(log)}
Committed == UNION {Range(log[i].calls) : i \in {k \in 1..Len(log) : log[k].outcome = "ok"}}

IsResourceCall(call) == call.entrypoint \in RegisterEntrypoints \cup UpgradeEntrypoints

\* A declare of class_hash has succeeded before operation i of the log.
DeclaredBefore(i, class_hash) ==
    \E j \in 1..(i - 1) :
        /\ log[j].op = "declare"
        /\ log[j].class_hash = class_hash
        /\ log[j].outcome \in {"ok", "already"}

\* The phase an operation belongs to, told from what it does.
PhaseOfCall(call) ==
    CASE call.entrypoint \in GrantEntrypoints -> 3
      [] call.entrypoint = "init_contract" -> 4
      [] OTHER -> 2

PhaseOfOp(op) ==
    CASE op.op = "deploy" -> 1
      [] op.op = "declare" -> IF op.class_hash = WorldClass THEN 1 ELSE 2
      [] OTHER -> PhaseOfCall(op.calls[1])

\* The phase-2 declare operations of the log.
ResourceDeclares == {i \in 1..Len(log) : log[i].op = "declare" /\ PhaseOfOp(log[i]) = 2}

\* The classes sync_resources hands to the Declarer for the current diff.
ClassesToDeclare == Range(sync_resources_getcalls(diff).declarer)

(***************************************************************************)
(* C1.  No register or upgrade call is submitted before the declare of the *)
(* class it references has succeeded in the same run; no such call is      *)
(* submitted at all unless declare_all has declared every class of the     *)
(* phase.                                                                  *)
(***************************************************************************)
C1_DeclaredBeforeRegistered ==
    LET classes == ClassesToDeclare
    IN  \A i \in 1..Len(log) :
            (\E call \in Range(log[i].calls) : IsResourceCall(call)) =>
                /\ \A call \in Range(log[i].calls) :
                      IsResourceCall(call) => DeclaredBefore(i, call.class_hash)
                /\ \A class_hash \in classes : DeclaredBefore(i, class_hash)

\* A register call was submitted after two classes were declared.
C1_Witness ==
    \E i \in 1..Len(log) :
        /\ \E call \in Range(log[i].calls) : call.entrypoint \in RegisterEntrypoints
        /\ Cardinality({j \in ResourceDeclares : j < i}) >= 2

(***************************************************************************)
(* C2.  The phases run in the order ensure-world, sync-resources,          *)
(* sync-permissions, initialize-contracts, and every operation of a phase  *)
(* has settled with success before a call of a later phase is emitted or   *)
(* submitted: the world is declared and deployed before any phase-2        *)
(* operation, every class is declared and every register/upgrade call is   *)
(* committed before a grant call exists, and every grant call is committed *)
(* before an init call exists.                                             *)
(***************************************************************************)
\* The calls that exist: collected in the Invoker, or submitted.
Emitted == Range(invoker) \cup Submitted

PhaseSettled(p) ==
    CASE p = 1 ->
            diff.world_status = "NewVersion" =>
                /\ \E i \in 1..Len(log) : log[i].op = "declare" /\ log[i].outcome # "failed"
                                          /\ log[i].class_hash = WorldClass
                /\ \E i \in 1..Len(log) : log[i].op = "deploy" /\ log[i].outcome = "ok"
      [] p = 2 ->
            /\ Range(sync_resources_getcalls(diff).invoker) \subseteq Committed
            /\ \A class_hash \in ClassesToDeclare : DeclaredBefore(Len(log) + 1, class_hash)
      [] p = 3 ->
            Range(sync_permissions_getcalls(diff, profile_config).calls) \subseteq Committed
      [] OTHER -> TRUE

C2_PhasesInOrder ==
    LET phases == {PhaseOfCall(call) : call \in Emitted}
                    \cup {PhaseOfOp(log[i]) : i \in 1..Len(log)}
    IN  /\ \A i \in 1..(Len(log) - 1) : PhaseOfOp(log[i]) <= PhaseOfOp(log[i + 1])
        /\ \A q \in phases : \A p \in 1..(q - 1) : PhaseSettled(p)

\* A run returned Ok after operations of all four phases.
C2_Witness ==
    /\ result.error = "Ok"
    /\ \A p \in 1..4 : \E i \in 1..Len(log) : PhaseOfOp(log[i]) = p

(***************************************************************************)
(* C3.  When an operation or a collecting loop of a phase fails, migrate   *)
(* returns that error at once: the failed operation is the last one the    *)
(* run submits (nothing is retried, no later operation is submitted), no   *)
(* call of a later phase is collected, and the run does not return Ok.     *)
(***************************************************************************)
ErrorOfOp(op) ==
    CASE op.op = "declare" -> "DeclarationError"
      [] op.op = "deploy" -> "DeploymentError"
      [] OTHER -> "ExecutionError"

ConfigurationErrors == {"OrphanSelectorAddress", "FromStr"}

C3_FailureAborts ==
    /\ \A i \in 1..Len(log) :
          log[i].outcome = "failed" =>
            /\ i = Len(log)
            /\ pc = "done"
            /\ result.error = ErrorOfOp(log[i])
            /\ \A call \in Range(invoker) : PhaseOfCall(call) <= PhaseOfOp(log[i])
    /\ result.error \in ConfigurationErrors =>
            /\ pc = "done"
            /\ invoker = <<>>
            /\ \A i \in 1..Len(log) : log[i].outcome # "failed"
    /\ result.error \notin {"running", "Ok"} =>
            \/ result.error \in ConfigurationErrors
            \/ Len(log) > 0 /\ log[Len(log)].outcome = "failed"

\* A run has failed in phase 2 with operations of phase 3 and 4 still due.
C3_Witness ==
    /\ result.error \in {"DeclarationError", "ExecutionError"}
    /\ Len(log) > 1
    /\ PhaseOfOp(log[Len(log)]) = 2
    /\ sync_permissions_getcalls(diff, profile_config).calls # <<>>
    /\ initialize_contracts_getcalls(diff, profile_config).calls # <<>>

(***************************************************************************)
(* C4.  Once sync_resources has collected its calls, a Synced resource of  *)
(* any kind has no call in the batch, a Created one has exactly one call,  *)
(* the register call of its kind, an Updated one exactly one call, the     *)
(* upgrade call of its kind (a namespace has no upgrade call: an Updated   *)
(* namespace has no call), and every class handed to the Declarer is the   *)
(* class of a Created or Updated resource.                                 *)
(***************************************************************************)
RegisterOf(type) ==
    CASE type = "Namespace" -> "register_namespace"
      [] type = "Contract" -> "register_contract"
      [] type = "Model" -> "register_model"
      [] OTHER -> "register_event"

UpgradeOf(type) ==
    CASE type = "Contract" -> "upgrade_contract"
      [] type = "Model" -> "upgrade_model"
      [] OTHER -> "upgrade_event"

\* sync_resources holds its collected batch.
ResourcesCollected ==
    /\ phase # 0
    /\ migrate_phases[phase] = "sync_resources"
    /\ pc # "sync_resources"

\* The resources whose class goes through the Declarer.
Changed == {r \in Range(diff.resources) :
                r.type # "Namespace" /\ r.kind \in {"Created", "Updated"}}

C4_OnlyChangedResourcesYieldCalls ==
    ResourcesCollected =>
        /\ \A r \in Range(diff.resources) :
            LET mine == {i \in 1..Len(invoker) : invoker[i].target = r.tag}
            IN  /\ r.kind = "Synced" => mine = {}
                /\ r.kind = "Created" =>
                      /\ Cardinality(mine) = 1
                      /\ \A i \in mine :
                            /\ invoker[i].entrypoint = RegisterOf(r.type)
                            /\ invoker[i].class_hash = r.class_hash
                /\ (r.kind = "Updated" /\ r.type # "Namespace") =>
                      /\ Cardinality(mine) = 1
                      /\ \A i \in mine :
                            /\ invoker[i].entrypoint = UpgradeOf(r.type)
                            /\ invoker[i].class_hash = r.class_hash
                /\ (r.kind = "Updated" /\ r.type = "Namespace") => mine = {}
        /\ \A i \in 1..Len(invoker) : \E r \in Range(diff.resources) :
                invoker[i].target = r.tag
        /\ \A class_hash \in Range(declarer) \cup {log[i].class_hash : i \in ResourceDeclares} :
                \E r \in Changed : r.class_hash = class_hash

\* The batch is collected from a diff with a Synced, a Created and an
\* Updated resource.
C4_Witness ==
    /\ ResourcesCollected
    /\ pc = "declare_all"
    /\ \E r \in Range(diff.resources) : r.kind = "Synced" /\ r.type = "Model"
    /\ \E r \in Range(diff.resources) : r.kind = "Created" /\ r.type = "Contract"
    /\ \E r \in Range(diff.resources) : r.kind = "Updated" /\ r.type = "Event"
    /\ Len(invoker) >= 2

(***************************************************************************)
(* C5.  Once sync_permissions has collected its calls, the batch holds     *)
(* exactly one grant call for every local (target, grantee) pair whose     *)
(* resolved address is absent from the remote set of the target, and no    *)
(* other call; no call other than the register, upgrade, grant and init    *)
(* calls is ever submitted, and every grant of the diff's remote sets      *)
(* stays in the remote state.                                              *)
(***************************************************************************)
PairsOf(local) ==
    UNION {{<<local[i].target, local[i].grantees[j]>> : j \in 1..Len(local[i].grantees)} :
            i \in 1..Len(local)}

MissingGrants(entrypoint, local, remote) ==
    {Call(entrypoint, p[1], 0, AddressOf(p[2]), <<>>) :
        p \in {q \in PairsOf(local) : <<q[1], AddressOf(q[2])>> \notin remote}}

PermissionsCollected ==
    /\ phase # 0
    /\ migrate_phases[phase] = "sync_permissions"
    /\ pc = "execute"

KnownEntrypoints ==
    {"register_namespace", "init_contract"} \cup RegisterEntrypoints
        \cup UpgradeEntrypoints \cup GrantEntrypoints

C5_GrantsAreAdditive ==
    /\ PermissionsCollected =>
        /\ Range(invoker) =
              MissingGrants("grant_writer", profile_config.local_writers,
                            diff.remote_writers)
              \cup MissingGrants("grant_owner", profile_config.local_owners,
                                 diff.remote_owners)
        /\ Len(invoker) = Cardinality(Range(invoker))
    /\ \A call \in Emitted :
        /\ call.entrypoint \in KnownEntrypoints
        /\ call.entrypoint = "grant_writer" =>
                <<call.target, call.grantee>> \notin diff.remote_writers
        /\ call.entrypoint = "grant_owner" =>
                <<call.target, call.grantee>> \notin diff.remote_owners
    /\ diff.remote_writers \subseteq chain.writers
    /\ diff.remote_owners \subseteq chain.owners

\* A run has granted a missing writer while another local writer was present
\* remotely and a remote writer was unknown locally.
C5_Witness ==
    /\ result.error = "Ok"
    /\ \E call \in Committed : call.entrypoint = "grant_writer"
    /\ \E p \in PairsOf(profile_config.local_writers) :
            <<p[1], AddressOf(p[2])>> \in diff.remote_writers
    /\ \E g \in diff.remote_writers :
            g[2] \in ForeignAddresses /\ g \in chain.writers

(***************************************************************************)
(* C6.  A run that follows a successful run, on the diff recomputed from   *)
(* the remote state that run left, collects no call and no class and       *)
(* submits no operation.                                                   *)
(***************************************************************************)
C6_SecondRunIsEmpty ==
    run >= 2 => log = <<>> /\ invoker = <<>> /\ declarer = <<>>

\* A second run has returned Ok after a first run that deployed the world,
\* granted a writer and initialized the contracts.
C6_Witness ==
    /\ run = 2
    /\ result.error = "Ok"
    /\ WorldClass \in chain.declared
    /\ chain.writers # {}
    /\ \A t \in ContractTags : chain.resources[t].is_initialized

(***************************************************************************)
(* What the remote state tells about a call.                               *)
(***************************************************************************)
\* The remote state holds the effect of the call.
Effective(c, call) ==
    CASE call.entrypoint = "register_namespace" -> c.resources[call.target].registered
      [] call.entrypoint \in RegisterEntrypoints \cup UpgradeEntrypoints ->
            /\ c.resources[call.target].registered
            /\ c.resources[call.target].class_hash = call.class_hash
      [] call.entrypoint = "grant_writer" -> <<call.target, call.grantee>> \in c.writers
      [] call.entrypoint = "grant_owner" -> <<call.target, call.grantee>> \in c.owners
      [] OTHER -> c.resources[call.target].is_initialized

(***************************************************************************)
(* C7.  In atomic mode every batch is one multicall transaction: no call   *)
(* is submitted on its own, a phase submits at most one transaction, a     *)
(* failed transaction leaves none of its calls committed to the remote     *)
(* state and a successful one leaves all of them committed.                *)
(***************************************************************************)
C7_AtomicBatch ==
    do_multicall(profile_config) =>
        /\ \A i \in 1..Len(log) : log[i].op # "invoke"
        /\ \A i, j \in 1..Len(log) :
              (log[i].op = "multicall" /\ log[j].op = "multicall" /\ i # j) =>
                  PhaseOfOp(log[i]) # PhaseOfOp(log[j])
        /\ \A i \in 1..Len(log) : log[i].op = "multicall" =>
              /\ log[i].outcome = "ok" =>
                    \A call \in Range(log[i].calls) : Effective(chain, call)
              /\ log[i].outcome = "failed" =>
                    \A call \in Range(log[i].calls) : ~Effective(chain, call)

\* A multicall of several calls has failed on a deployed world.
C7_Witness ==
    /\ do_multicall(profile_config)
    /\ chain.world
    /\ Len(log) > 0
    /\ log[Len(log)].op = "multicall"
    /\ log[Len(log)].outcome = "failed"
    /\ Len(log[Len(log)].calls) >= 3

(***************************************************************************)
(* C8.  In sequential mode the calls of a batch are submitted one by one   *)
(* in insertion order, each after the previous one was committed; when a   *)
(* call fails, the calls before it are committed and no other, no call     *)
(* after it is submitted, and the error names the failing call and the     *)
(* number of calls committed before it.                                    *)
(***************************************************************************)
\* The number of calls of the current batch that were submitted.
SubmittedOfBatch ==
    Cardinality({i \in 1..Len(log) :
                    log[i].op = "invoke" /\ log[i].calls[1] \in Range(invoker)})

SequentialBatchInOrder ==
    LET n == SubmittedOfBatch
        failed == n > 0 /\ log[Len(log)].outcome = "failed"
    IN  /\ n <= Len(invoker)
        /\ \A k \in 1..n :
              /\ log[Len(log) - n + k].op = "invoke"
              /\ log[Len(log) - n + k].calls = <<invoker[k]>>
              /\ k < n => log[Len(log) - n + k].outcome = "ok"
        /\ failed <=> result.error = "ExecutionError"
        /\ failed =>
              /\ result.call = n
              /\ result.committed = n - 1
              /\ \A k \in 1..Len(invoker) :
                    Effective(chain, invoker[k]) <=> k < n
        /\ ~failed =>
              /\ next_call = n + 1
              /\ \A k \in 1..Len(invoker) :
                    Effective(chain, invoker[k]) <=> k <= n

C8_SequentialBatch ==
    ~do_multicall(profile_config) =>
        /\ \A i \in 1..Len(log) : log[i].op # "multicall"
        /\ (pc = "execute" \/ result.error = "ExecutionError") => SequentialBatchInOrder

\* The third call of a batch of four or more has failed.
C8_Witness ==
    /\ ~do_multicall(profile_config)
    /\ result.error = "ExecutionError"
    /\ result.call = 3
    /\ result.committed = 2
    /\ Len(invoker) >= 4

(***************************************************************************)
(* C9.  declare_all submits one declare operation per distinct class: the  *)
(* registry never holds a class twice, no class is declared twice in a     *)
(* run, and once declare_all is over the classes declared are those of the *)
(* Created and Updated resources, one operation each.                      *)
(***************************************************************************)
DeclareAllOver ==
    \/ \E call \in Submitted : PhaseOfCall(call) = 2
    \/ ResourcesCollected /\ pc = "execute"

C9_OneDeclarePerClass ==
    /\ Len(declarer) = Cardinality(Range(declarer))
    /\ \A i, j \in ResourceDeclares : log[i].class_hash = log[j].class_hash => i = j
    /\ DeclareAllOver =>
          /\ {log[i].class_hash : i \in ResourceDeclares} = {r.class_hash : r \in Changed}
          /\ Cardinality(ResourceDeclares) = Cardinality({r.class_hash : r \in Changed})

\* declare_all is over for a diff in which two Created contracts share their
\* class and a third resource brings another class.
C9_Witness ==
    /\ DeclareAllOver
    /\ \E r1, r2 \in Changed :
          /\ r1.tag # r2.tag
          /\ r1.kind = "Created" /\ r2.kind = "Created"
          /\ r1.class_hash = r2.class_hash
          /\ Cardinality({i \in ResourceDeclares : log[i].class_hash = r1.class_hash}) = 1
    /\ Cardinality(ResourceDeclares) = 2

(***************************************************************************)
(* C10.  In declare_all an "already declared" answer is a success: the run *)
(* goes on and the remaining classes are declared.  Any other failure is   *)
(* fatal: it is the last operation of the run, the class is not declared   *)
(* again, the remaining classes are not declared and no call of the batch  *)
(* is submitted.                                                           *)
(***************************************************************************)
C10_AlreadyDeclaredIsSuccess ==
    /\ \A i \in ResourceDeclares :
          /\ (log[i].outcome = "already" /\ i = Len(log)) =>
                /\ result.error = "running"
                /\ pc \in {"declare_all", "execute"}
          /\ log[i].outcome = "failed" =>
                /\ i = Len(log)
                /\ result.error = "DeclarationError"
                /\ pc = "done"
                /\ \A j \in ResourceDeclares : j # i => log[j].class_hash # log[i].class_hash
                /\ \A call \in Submitted : PhaseOfCall(call) # 2
    /\ DeclareAllOver =>
          \A class_hash \in ClassesToDeclare :
              \E i \in ResourceDeclares :
                  log[i].class_hash = class_hash /\ log[i].outcome \in {"ok", "already"}

\* An "already declared" answer was followed by the declaration of another
\* class, which failed while the batch held calls.
C10_Witness ==
    /\ \E i, j \in ResourceDeclares :
          /\ i < j
          /\ log[i].outcome = "already"
          /\ log[j].outcome = "failed"
    /\ invoker # <<>>

(***************************************************************************)
(* C11.  Once initialize_contracts has collected its calls, the batch      *)
(* holds exactly one init call for every eligible Contract resource of the *)
(* diff the run was given and no other call: a Created contract is         *)
(* eligible, an Updated or Synced one if and only if its remote record has *)
(* is_initialized = false, whatever the remote state has become during the *)
(* run; the call carries the configured arguments of the tag, parsed, and  *)
(* no argument when the tag has none configured.                           *)
(***************************************************************************)
InitCollected ==
    /\ phase # 0
    /\ migrate_phases[phase] = "initialize_contracts"
    /\ pc = "execute"

\* A resource phase 4 is to initialize, told from the diff.
Eligible(r) ==
    /\ r.type = "Contract"
    /\ r.kind = "Created" \/ (r.kind \in {"Updated", "Synced"} /\ ~r.is_initialized)

\* The arguments configured for a tag (none when the map or the entry is absent).
ConfiguredArgs(tag) ==
    IF profile_config.init_call_args.is_some
         /\ tag \in DOMAIN profile_config.init_call_args.map
    THEN profile_config.init_call_args.map[tag]
    ELSE <<>>

C11_OneInitPerEligibleContract ==
    InitCollected =>
        /\ \A r \in Range(diff.resources) :
              LET mine == {i \in 1..Len(invoker) : invoker[i].target = r.tag}
              IN  /\ Eligible(r) =>
                        /\ Cardinality(mine) = 1
                        /\ \A i \in mine :
                              /\ Len(invoker[i].calldata) = Len(ConfiguredArgs(r.tag))
                              /\ \A k \in 1..Len(invoker[i].calldata) :
                                    invoker[i].calldata[k] =
                                        Felt_from_str(ConfiguredArgs(r.tag)[k])
                  /\ ~Eligible(r) => mine = {}
        /\ \A i \in 1..Len(invoker) :
              /\ invoker[i].entrypoint = "init_contract"
              /\ \E r \in Range(diff.resources) : invoker[i].target = r.tag

\* The batch is collected from a diff with an uninitialized Synced contract
\* that has no configured argument and an initialized Updated contract, under
\* a configuration that holds arguments for another tag.
C11_Witness ==
    /\ InitCollected
    /\ profile_config.init_call_args.is_some
    /\ DOMAIN profile_config.init_call_args.map # {}
    /\ \E r \in Range(diff.resources) :
          /\ r.type = "Contract" /\ r.kind = "Synced" /\ ~r.is_initialized
          /\ ConfiguredArgs(r.tag) = <<>>
          /\ \E i \in 1..Len(invoker) :
                invoker[i].target = r.tag /\ invoker[i].calldata = <<>>
    /\ \E r \in Range(diff.resources) :
          r.type = "Contract" /\ r.kind = "Updated" /\ r.is_initialized
    /\ Len(invoker) = 1

(***************************************************************************)
(* C12.  A configuration error is returned before its phase submits        *)
(* anything.  When a local writer or owner grantee resolves to no contract *)
(* address, no grant call is ever collected or submitted, phase 3 returns  *)
(* OrphanSelectorAddress and the run submits no operation of phase 3 or 4; *)
(* when a configured argument of an eligible contract is no field element, *)
(* no init call is ever collected or submitted, phase 4 returns the parse  *)
(* error and the run submits no operation of phase 4.  Neither error is    *)
(* returned in any other case.                                             *)
(***************************************************************************)
\* The local (target, grantee) pairs whose grantee names no contract of the diff.
Orphans ==
    {p \in PairsOf(profile_config.local_writers) \cup PairsOf(profile_config.local_owners) :
        ~\E r \in Range(diff.resources) : r.type = "Contract" /\ r.tag = p[2]}

\* The eligible contracts with a configured argument that does not parse.
Malformed ==
    {r \in Range(diff.resources) :
        /\ Eligible(r)
        /\ \E k \in 1..Len(ConfiguredArgs(r.tag)) :
              Felt_from_str(ConfiguredArgs(r.tag)[k]) = -1}

C12_ConfigurationErrorBeforeNetwork ==
    /\ Orphans # {} =>
          /\ \A call \in Emitted : call.entrypoint \notin GrantEntrypoints \cup {"init_contract"}
          /\ \A i \in 1..Len(log) : log[i].phase < 3
          /\ phase \in {0, 1, 2, 3} /\ ~PermissionsCollected
          /\ result.error # "Ok"
          /\ (pc = "done" /\ \A i \in 1..Len(log) : log[i].outcome # "failed") =>
                result.error = "OrphanSelectorAddress"
    /\ result.error = "OrphanSelectorAddress" =>
          Orphans # {} /\ result.detail \in {p[2] : p \in Orphans}
    /\ Malformed # {} =>
          /\ \A call \in Emitted : call.entrypoint # "init_contract"
          /\ \A i \in 1..Len(log) : log[i].phase < 4
          /\ ~InitCollected
          /\ result.error # "Ok"
          /\ (pc = "done" /\ Orphans = {}
                /\ \A i \in 1..Len(log) : log[i].outcome # "failed") =>
                result.error = "FromStr"
    /\ result.error = "FromStr" => Malformed # {}

\* Phase 3 has returned OrphanSelectorAddress after phase 2 submitted its
\* operations, the offending pair following a pair whose grant is missing
\* remotely.
C12_Witness ==
    /\ result.error = "OrphanSelectorAddress"
    /\ Len(log) > 0
    /\ \E i \in 1..Len(profile_config.local_writers) :
          LET permission == profile_config.local_writers[i]
          IN  \E j, k \in 1..Len(permission.grantees) :
                /\ j < k
                /\ <<permission.target, permission.grantees[k]>> \in Orphans
                /\ <<permission.target, permission.grantees[j]>> \notin Orphans
                /\ <<permission.target, AddressOf(permission.grantees[j])>>
                        \notin diff.remote_writers

\* Phase 4 has returned the parse error of the second contract's argument,
\* the first contract being eligible with arguments that parse.
C12_WitnessArguments ==
    /\ result.error = "FromStr"
    /\ \E i, j \in 1..Len(diff.resources) :
          /\ i < j
          /\ diff.resources[j] \in Malformed
          /\ Eligible(diff.resources[i]) /\ diff.resources[i] \notin Malformed
          /\ ConfiguredArgs(diff.resources[i].tag) # <<>>

(***************************************************************************)
(* C13.  As claimed: with a local writer grant whose grantee tag is absent *)
(* from the diff, the run makes no network call and returns                *)
(* OrphanSelectorAddress, whatever the world status and the diffs.         *)
(***************************************************************************)
\* The local writer pairs whose grantee names no contract of the diff.
WriterOrphans == Orphans \cap PairsOf(profile_config.local_writers)

C13_OrphanBeforeAnyNetworkCall ==
    WriterOrphans # {} =>
        /\ log = <<>>
        /\ pc = "done" => result.error = "OrphanSelectorAddress"

(***************************************************************************)
(* C13, amended.  With such a grant the run returns OrphanSelectorAddress, *)
(* naming an orphan grantee of the writers, once phases 1 and 2 have       *)
(* succeeded and before any call of phase 3 or 4 is collected or           *)
(* submitted: every operation of the run is one of phase 1 or 2.  A failed *)
(* operation of phase 1 or 2 is returned instead.  The run makes no        *)
(* network call at all when the world status is not NewVersion and no      *)
(* resource is Created or Updated.                                         *)
(***************************************************************************)
\* Phases 1 and 2 have nothing to submit for the diff.
NothingToSync ==
    /\ diff.world_status # "NewVersion"
    /\ \A r \in Range(diff.resources) : r.kind = "Synced"

C13_OrphanBeforePermissionCalls ==
    WriterOrphans # {} =>
        /\ \A i \in 1..Len(log) : log[i].phase \in {1, 2}
        /\ \A call \in Emitted : PhaseOfCall(call) = 2
        /\ pc = "done" =>
              \/ /\ result.error = "OrphanSelectorAddress"
                 /\ result.detail \in {p[2] : p \in WriterOrphans}
                 /\ \A i \in 1..Len(log) : log[i].outcome # "failed"
              \/ /\ Len(log) > 0
                 /\ log[Len(log)].outcome = "failed"
                 /\ result.error = ErrorOfOp(log[Len(log)])
        /\ NothingToSync => log = <<>>

\* OrphanSelectorAddress was returned after the world was declared and
\* deployed and the resources were registered.
C13_Witness ==
    /\ WriterOrphans # {}
    /\ result.error = "OrphanSelectorAddress"
    /\ \E i \in 1..Len(log) : log[i].op = "deploy"
    /\ \E call \in Committed : call.entrypoint \in RegisterEntrypoints

\* OrphanSelectorAddress was returned by a run that made no network call.
C13_WitnessNothingToSync ==
    /\ WriterOrphans # {}
    /\ result.error = "OrphanSelectorAddress"
    /\ NothingToSync
    /\ log = <<>>

(***************************************************************************)
(* C14.  When the world status is NotDeployed, phase 1 fails: migrate      *)
(* returns an error, no later phase runs and nothing is collected or       *)
(* submitted.                                                              *)
(***************************************************************************)
C14_NotDeployedIsFatal ==
    diff.world_status = "NotDeployed" =>
        /\ phase \in {0, 1}
        /\ log = <<>> /\ invoker = <<>> /\ declarer = <<>>
        /\ pc = "done" => result.error \notin {"running", "Ok"}

(***************************************************************************)
(* C15.  Phase 1.  For a NewVersion world the run declares the world       *)
(* artifact once and, only after that declaration has succeeded, deploys   *)
(* once: the declare is the first operation of the run and the deploy the  *)
(* second; a failed declaration is the last operation of the run (no       *)
(* deploy), a failed deployment is the last operation of the run, and a    *)
(* run that is past phase 1 has exactly one successful declare and one     *)
(* successful deploy.  For a Synced world phase 1 submits nothing.         *)
(***************************************************************************)
WorldDeclares == {i \in 1..Len(log) : log[i].op = "declare" /\ log[i].class_hash = WorldClass}
Deploys == {i \in 1..Len(log) : log[i].op = "deploy"}

C15_EnsureWorld ==
    /\ \A i \in 1..Len(log) : log[i].phase = 1 <=> i \in WorldDeclares \cup Deploys
    /\ WorldDeclares \subseteq {1} /\ Deploys \subseteq {2}
    /\ \A j \in Deploys :
          \E i \in WorldDeclares : i < j /\ log[i].outcome \in {"ok", "already"}
    /\ \A i \in WorldDeclares \cup Deploys :
          log[i].outcome = "failed" =>
              /\ i = Len(log)
              /\ pc = "done"
              /\ result.error = IF i \in Deploys THEN "DeploymentError"
                                ELSE "DeclarationError"
    /\ (diff.world_status = "NewVersion" /\ (phase >= 2 \/ result.error = "Ok")) =>
          /\ WorldDeclares = {1} /\ log[1].outcome \in {"ok", "already"}
          /\ Deploys = {2} /\ log[2].outcome = "ok"
          /\ chain.world
    /\ diff.world_status = "Synced" => \A i \in 1..Len(log) : log[i].phase # 1

\* The world was declared and deployed and the run has gone on to submit
\* operations of phase 2.
C15_Witness ==
    /\ diff.world_status = "NewVersion"
    /\ WorldDeclares = {1} /\ Deploys = {2}
    /\ log[2].outcome = "ok"
    /\ Len(log) > 2

\* The declaration of the world has failed.
C15_WitnessFailedDeclare ==
    /\ diff.world_status = "NewVersion"
    /\ WorldDeclares = {1} /\ log[1].outcome = "failed"
    /\ pc = "done"

(***************************************************************************)
(* C16.  In the batch sync_resources collects, and in the order the calls  *)
(* are submitted, every register_namespace call precedes every register or *)
(* upgrade call of a Contract, Model or Event, wherever the map's          *)
(* iteration meets the namespace; the batch holds one register_namespace   *)
(* call for a namespace whose diff is Created and none for one whose diff  *)
(* is Updated or Synced.                                                   *)
(***************************************************************************)
IsNamespaceCall(call) == call.entrypoint = "register_namespace"

C16_NamespacesFirst ==
    /\ ResourcesCollected =>
          /\ \A i, j \in 1..Len(invoker) :
                (IsNamespaceCall(invoker[i]) /\ IsResourceCall(invoker[j])) => i < j
          /\ \A r \in Range(diff.resources) :
                r.type = "Namespace" =>
                    Cardinality({i \in 1..Len(invoker) :
                                    IsNamespaceCall(invoker[i]) /\ invoker[i].target = r.tag})
                        = IF r.kind = "Created" THEN 1 ELSE 0
    /\ \A i, j \in 1..Len(log) :
          \A a \in 1..Len(log[i].calls) : \A b \in 1..Len(log[j].calls) :
              (IsNamespaceCall(log[i].calls[a]) /\ IsResourceCall(log[j].calls[b])) =>
                  i < j \/ (i = j /\ a < b)
    /\ \A call \in Emitted :
          IsNamespaceCall(call) =>
              \E r \in Range(diff.resources) :
                  r.tag = call.target /\ r.type = "Namespace" /\ r.kind = "Created"

\* The batch is collected from a map that yields two resources to register
\* or upgrade before it yields their Created namespace.
C16_Witness ==
    /\ ResourcesCollected
    /\ \E n, i, j \in 1..Len(diff.resources) :
          /\ i < j /\ j < n
          /\ diff.resources[n].type = "Namespace" /\ diff.resources[n].kind = "Created"
          /\ diff.resources[i].kind = "Created" /\ diff.resources[j].kind = "Updated"
    /\ Len(invoker) >= 3
    /\ IsNamespaceCall(invoker[1])

\* The batch is collected from a diff with an Updated namespace and holds
\* calls of its resources.
C16_WitnessUpdated ==
    /\ ResourcesCollected
    /\ \E r \in Range(diff.resources) : r.type = "Namespace" /\ r.kind = "Updated"
    /\ Len(invoker) >= 2

(***************************************************************************)
(* C17.  The scenario of a Synced world, a diff of one Created namespace   *)
(* and one Created contract in it, no remote grant, the contract a local   *)
(* writer of itself and no configured init argument.  The calls the run    *)
(* submits are, in this order, a prefix of: register the namespace,        *)
(* register the contract, grant the writer to the contract's address,      *)
(* initialize the contract with no argument; the register calls follow the *)
(* one declare of the contract's class.  A run that returns Ok has         *)
(* submitted these four calls and that declare, five operations, and no    *)
(* other, and all of them are committed.                                   *)
(***************************************************************************)
\* The calls of the log in the order they were submitted.
FlatCalls ==
    LET Cat(calls, op) == calls \o op.calls
    IN FoldSeq(Cat, <<>>, log, 1)

Scenario ==
    /\ diff.world_status = "Synced"
    /\ {r.tag : r \in Range(diff.resources)} = {"ns", "ns-c1"}
    /\ \A r \in Range(diff.resources) : r.kind = "Created"
    /\ diff.remote_writers = {} /\ diff.remote_owners = {}
    /\ profile_config.local_writers = <<Permission("ns-c1", <<"ns-c1">>)>>
    /\ profile_config.local_owners = <<>>
    /\ ~profile_config.init_call_args.is_some

ScenarioCalls ==
    <<Call("register_namespace", "ns", 0, 0, <<>>),
      Call("register_contract", "ns-c1", ResourceOf(diff, "ns-c1").class_hash, 0, <<>>),
      Call("grant_writer", "ns-c1", 0, AddressOf("ns-c1"), <<>>),
      Call("init_contract", "ns-c1", 0, 0, <<>>)>>

C17_ScenarioFiveOperations ==
    Scenario =>
        LET declares == {i \in 1..Len(log) : log[i].op = "declare"}
        IN  /\ Len(FlatCalls) <= Len(ScenarioCalls)
            /\ \A k \in 1..Len(FlatCalls) : FlatCalls[k] = ScenarioCalls[k]
            /\ \A i \in 1..Len(log) : log[i].op \in {"declare", "multicall", "invoke"}
            /\ Cardinality(declares) <= 1
            /\ \A i \in declares :
                  /\ i = 1
                  /\ log[i].class_hash = ResourceOf(diff, "ns-c1").class_hash
            /\ FlatCalls # <<>> => declares = {1} /\ log[1].outcome \in {"ok", "already"}
            /\ result.error = "Ok" =>
                  /\ FlatCalls = ScenarioCalls
                  /\ Cardinality(declares) + Len(FlatCalls) = 5
                  /\ \A i \in 1..Len(log) : log[i].outcome # "failed"
                  /\ \A k \in 1..Len(ScenarioCalls) : Effective(chain, ScenarioCalls[k])

\* The scenario's run has returned Ok, the map yielding the contract before
\* its namespace.
C17_Witness ==
    /\ Scenario
    /\ result.error = "Ok"
    /\ diff.resources[1].tag = "ns-c1"
    /\ Len(FlatCalls) = 4

(***************************************************************************)
(* C18.  One run executes all its batches in one mode.  Every batch of     *)
(* phases 2, 3 and 4 goes out as a multicall when the configuration has no *)
(* migration section or its disable_multicall is false, and call by call   *)
(* when disable_multicall is true; no run submits both a multicall and a   *)
(* call on its own.                                                        *)
(***************************************************************************)
\* The mode the configuration asks for, in the claim's words.
AtomicMode ==
    \/ ~profile_config.migration.is_some
    \/ ~profile_config.migration.disable_multicall

\* The operations of the log that execute a batch.
Executions == {i \in 1..Len(log) : log[i].op \in {"multicall", "invoke"}}

C18_OneModePerRun ==
    /\ \A i \in Executions :
          /\ log[i].phase \in {2, 3, 4}
          /\ log[i].op = IF AtomicMode THEN "multicall" ELSE "invoke"
    /\ \A i, j \in Executions : log[i].op = log[j].op
    /\ \A i \in 1..Len(log) : log[i].phase \in {2, 3, 4} =>
          i \in Executions \/ (log[i].op = "declare" /\ log[i].phase = 2)

\* A run with a migration section that leaves multicall enabled has
\* returned Ok after a multicall in each of phases 2, 3 and 4.
C18_Witness ==
    /\ profile_config.migration.is_some
    /\ ~profile_config.migration.disable_multicall
    /\ result.error = "Ok"
    /\ \A p \in {2, 3, 4} : \E i \in Executions : log[i].phase = p /\ log[i].op = "multicall"

\* A run with multicall disabled has returned Ok after calls of phases 2, 3
\* and 4, each on its own.
C18_WitnessSequential ==
    /\ profile_config.migration.is_some
    /\ profile_config.migration.disable_multicall
    /\ result.error = "Ok"
    /\ \A p \in {2, 3, 4} : \E i \in Executions : log[i].phase = p /\ log[i].op = "invoke"

\* A run without a migration section has returned Ok after a multicall in
\* each of phases 2, 3 and 4.
C18_WitnessDefault ==
    /\ ~profile_config.migration.is_some
    /\ result.error = "Ok"
    /\ \A p \in {2, 3, 4} : \E i \in Executions : log[i].phase = p /\ log[i].op = "multicall"

(***************************************************************************)
(* C19.  A batch with no call is executed without a transaction and with   *)
(* success, in atomic and in sequential mode: no multicall or invoke of    *)
(* the log is empty, and a phase whose batch is empty for the diff adds no *)
(* execution to the log.  Hence with a Synced world, every resource        *)
(* Synced, every local grant present remotely and every contract           *)
(* initialized, the run collects nothing, submits nothing and returns Ok.  *)
(***************************************************************************)
\* The batch a phase collects for the diff and the configuration.
BatchOf(p) ==
    CASE p = 2 -> sync_resources_getcalls(diff).invoker
      [] p = 3 -> sync_permissions_getcalls(diff, profile_config).calls
      [] OTHER -> initialize_contracts_getcalls(diff, profile_config).calls

\* The diff asks for nothing: all is as the local project has it.
NothingToDo ==
    /\ diff.world_status = "Synced"
    /\ \A r \in Range(diff.resources) : r.kind = "Synced"
    /\ \A r \in Range(diff.resources) : r.type = "Contract" => r.is_initialized
    /\ Orphans = {}
    /\ \A q \in PairsOf(profile_config.local_writers) :
          <<q[1], AddressOf(q[2])>> \in diff.remote_writers
    /\ \A q \in PairsOf(profile_config.local_owners) :
          <<q[1], AddressOf(q[2])>> \in diff.remote_owners

C19_EmptyBatchIsNoOp ==
    /\ \A i \in Executions : log[i].calls # <<>>
    /\ \A p \in {log[i].phase : i \in Executions} : BatchOf(p) # <<>>
    /\ (phase = 0 /\ result.error \notin ConfigurationErrors
            /\ (\A i \in 1..Len(log) : log[i].outcome # "failed")) => result.error = "Ok"
    /\ NothingToDo =>
          /\ log = <<>> /\ invoker = <<>> /\ declarer = <<>>
          /\ result.error \in {"running", "Ok"}
          /\ pc = "done" => result.error = "Ok"

\* A first run in sequential mode has returned Ok with nothing to do, its
\* configuration holding a writer and an owner grant.
C19_Witness ==
    /\ run = 1
    /\ NothingToDo
    /\ ~do_multicall(profile_config)
    /\ profile_config.local_writers # <<>> /\ profile_config.local_owners # <<>>
    /\ result.error = "Ok"

\* The same in atomic mode.
C19_WitnessAtomic ==
    /\ run = 1
    /\ NothingToDo
    /\ do_multicall(profile_config)
    /\ profile_config.local_writers # <<>> /\ profile_config.local_owners # <<>>
    /\ result.error = "Ok"

(***************************************************************************)
(* C20.  Each of phases 2, 3 and 4 collects one batch and executes it      *)
(* once.  In atomic mode a phase submits at most one multicall and it      *)
(* carries the phase's whole batch: the namespace registrations with the   *)
(* register and upgrade calls, the writer grants with the owner grants;    *)
(* in either mode no call is submitted twice.  In the batch of phase 3,    *)
(* as collected and as submitted, every writer grant precedes every owner  *)
(* grant.  So when the multicall of phase 3 fails no grant of it is        *)
(* committed, writer or owner, and when the multicall of phase 2 fails no  *)
(* namespace registration of it is committed.                              *)
(***************************************************************************)
Multicalls == {i \in 1..Len(log) : log[i].op = "multicall"}

C20_OneBatchPerPhase ==
    /\ \A i \in Multicalls :
          /\ log[i].calls = BatchOf(log[i].phase)
          /\ \A j \in Multicalls : log[i].phase = log[j].phase => i = j
    /\ LET calls == FlatCalls
       IN  \A a, b \in 1..Len(calls) :
              /\ calls[a] = calls[b] => a = b
              /\ (calls[a].entrypoint = "grant_writer"
                    /\ calls[b].entrypoint = "grant_owner") => a < b
    /\ PermissionsCollected =>
          \A a, b \in 1..Len(invoker) :
              (invoker[a].entrypoint = "grant_writer"
                  /\ invoker[b].entrypoint = "grant_owner") => a < b
    /\ \A i \in Multicalls :
          log[i].outcome = "failed" =>
              /\ log[i].phase = 3 =>
                    /\ chain.writers = diff.remote_writers
                    /\ chain.owners = diff.remote_owners
              /\ log[i].phase = 2 =>
                    \A call \in Range(log[i].calls) :
                        IsNamespaceCall(call) => ~chain.resources[call.target].registered

\* The multicall of phase 3 has failed on a deployed world; it carried a
\* writer grant and an owner grant.
C20_Witness ==
    /\ chain.world
    /\ \E i \in Multicalls :
          /\ log[i].phase = 3
          /\ log[i].outcome = "failed"
          /\ \E call \in Range(log[i].calls) : call.entrypoint = "grant_writer"
          /\ \E call \in Range(log[i].calls) : call.entrypoint = "grant_owner"

\* The multicall of phase 2 has failed on a deployed world; it carried a
\* namespace registration and a register call.
C20_WitnessResources ==
    /\ chain.world
    /\ \E i \in Multicalls :
          /\ log[i].phase = 2
          /\ log[i].outcome = "failed"
          /\ \E call \in Range(log[i].calls) : IsNamespaceCall(call)
          /\ \E call \in Range(log[i].calls) : call.entrypoint \in RegisterEntrypoints

(***************************************************************************)
(* The StarknetProvider of katana (crates/katana/rpc/provider/src/lib.rs). *)
(*                                                                         *)
(* The storage behind the provider is a set of tables, one per lookup of   *)
(* the storage traits (BlockProvider, BlockHashProvider, ReceiptProvider,  *)
(* TransactionProvider, TransactionStatusProvider, StateRootProvider,      *)
(* StateUpdateProvider).  A lookup answers Some(value) or None; the        *)
(* storage itself is taken not to fail.  Hashes, roots and numbers are     *)
(* field elements and are modelled as integers.                            *)
(***************************************************************************)
\* Number of blocks of the longest chain, and of transactions of the fullest block.
MaxBlocks == 2
MaxTxs == 2

Some(value) == [is_some |-> TRUE, value |-> value]
None == [is_some |-> FALSE, value |-> <<>>]

\* Option::ok_or and Option::expect, followed by the rest of the method.
Ok(value) == [kind |-> "Ok", value |-> value]
Err(error) == [kind |-> "Err", value |-> error]
Panic(message) == [kind |-> "Panic", value |-> message]

\* table.get(key)
Lookup(table, key) == IF key \in DOMAIN table THEN Some(table[key]) ELSE None

\* BlockHashOrNumber
Hash(hash) == [tag |-> "Hash", value |-> hash]
Num(number) == [tag |-> "Num", value |-> number]

FinalityStatus == {"AcceptedOnL2", "AcceptedOnL1"}

(***************************************************************************)
(* The chains a storage holds.  Block n has hash BlockHashOf(n) and state  *)
(* root StateRootOf(n); its transaction number i has hash TxHashOf(n, i).  *)
(* A field element is the hash of at most one thing.                       *)
(***************************************************************************)
BlockHashOf(number) == 100 + number
StateRootOf(number) == 200 + number
TxHashOf(number, index) == 10 * (number + 1) + index

\* The blocks of a chain: the number of transactions and which of them, if
\* any, was reverted (0 for none).
BlockShapes == {[count |-> c, reverted |-> r] : c \in 0..MaxTxs, r \in 0..MaxTxs}

\* A chain of n blocks from genesis, the first accepted_on_l1 of them being
\* accepted on L1.
ChainShapes ==
    UNION {[blocks : [1..n -> {b \in BlockShapes : b.reverted <= b.count}],
            accepted_on_l1 : 0..n] : n \in 1..MaxBlocks}

\* The tables of the storage that holds a chain.
StoreOf(shape) ==
    LET numbers == 0..(Len(shape.blocks) - 1)
        located == {<<n, i>> \in numbers \X (0..(MaxTxs - 1)) :
                        i < shape.blocks[n + 1].count}
        status(n) == IF n < shape.accepted_on_l1 THEN "AcceptedOnL1" ELSE "AcceptedOnL2"
        at(hash) == CHOOSE l \in located : TxHashOf(l[1], l[2]) = hash
        hashes == {TxHashOf(l[1], l[2]) : l \in located}
    IN  [block_hashes |-> [n \in numbers |-> BlockHashOf(n)],
         block_bodies |-> [n \in numbers |->
                            [i \in 1..shape.blocks[n + 1].count |-> TxHashOf(n, i - 1)]],
         block_statuses |-> [n \in numbers |-> status(n)],
         state_roots |-> [n \in numbers |-> StateRootOf(n)],
         state_updates |-> [n \in numbers |-> shape.blocks[n + 1].count],
         transactions |-> [h \in hashes |-> [hash |-> h]],
         tx_locations |-> [h \in hashes |-> at(h)],
         tx_statuses |-> [h \in hashes |-> status(at(h)[1])],
         receipts |-> [h \in hashes |->
                        [reverted |-> shape.blocks[at(h)[1] + 1].reverted = at(h)[2] + 1]]]

(***************************************************************************)
(* The lookups of the storage traits, as the provider calls them.          *)
(***************************************************************************)
\* BlockHashProvider::block_number_by_hash
block_number_by_hash(s, block_hash) ==
    IF \E n \in DOMAIN s.block_hashes : s.block_hashes[n] = block_hash
    THEN Some(CHOOSE n \in DOMAIN s.block_hashes : s.block_hashes[n] = block_hash)
    ELSE None

\* A lookup by BlockHashOrNumber in a table keyed by block number.
by_id(s, table, id) ==
    LET number == IF id.tag = "Num" THEN Some(id.value)
                  ELSE block_number_by_hash(s, id.value)
    IN  IF number.is_some THEN Lookup(table, number.value) ELSE None

\* BlockHashProvider::block_hash_by_id
block_hash_by_id(s, id) == by_id(s, s.block_hashes, id)

\* BlockProvider::block_with_tx_hashes
block_with_tx_hashes(s, id) == by_id(s, s.block_bodies, id)

\* BlockProvider::block: the block with its transactions.
block(s, id) ==
    LET body == by_id(s, s.block_bodies, id)
    IN  IF body.is_some
        THEN Some([i \in 1..Len(body.value) |-> s.transactions[body.value[i]]])
        ELSE None

\* BlockStatusProvider::block_status
block_status(s, id) == by_id(s, s.block_statuses, id)

\* ReceiptProvider::receipts_by_block
receipts_by_block(s, id) ==
    LET body == by_id(s, s.block_bodies, id)
    IN  IF body.is_some
        THEN Some([i \in 1..Len(body.value) |-> s.receipts[body.value[i]]])
        ELSE None

\* TransactionProvider::transaction_count_by_block
transaction_count_by_block(s, id) ==
    LET body == by_id(s, s.block_bodies, id)
    IN  IF body.is_some THEN Some(Len(body.value)) ELSE None

\* TransactionProvider::transaction_by_block_and_idx
transaction_by_block_and_idx(s, id, index) ==
    LET body == by_id(s, s.block_bodies, id)
    IN  IF body.is_some /\ index < Len(body.value)
        THEN Some(s.transactions[body.value[index + 1]])
        ELSE None

\* TransactionProvider::transaction_by_hash
transaction_by_hash(s, tx_hash) == Lookup(s.transactions, tx_hash)

\* TransactionProvider::transaction_block_num_and_hash
transaction_block_num_and_hash(s, tx_hash) ==
    IF tx_hash \in DOMAIN s.tx_locations
    THEN Some(<<s.tx_locations[tx_hash][1], s.block_hashes[s.tx_locations[tx_hash][1]]>>)
    ELSE None

\* TransactionStatusProvider::transaction_status
TransactionStatusProvider_transaction_status(s, tx_hash) == Lookup(s.tx_statuses, tx_hash)

\* ReceiptProvider::receipt_by_hash
receipt_by_hash(s, tx_hash) == Lookup(s.receipts, tx_hash)

\* StateRootProvider::state_root
state_root(s, id) == by_id(s, s.state_roots, id)

\* StateUpdateProvider::state_update
state_update(s, id) == by_id(s, s.state_updates, id)

\* BlockNumberProvider::latest_number and BlockHashProvider::latest_hash
latest_number(s) == CHOOSE n \in DOMAIN s.block_hashes : \A m \in DOMAIN s.block_hashes : m <= n
latest_hash(s) == s.block_hashes[latest_number(s)]

(***************************************************************************)
(* impl<P> StarknetProvider for P.                                         *)
(***************************************************************************)
block_number(s) == Ok(latest_number(s))

block_hash_and_number(s) == Ok([hash |-> latest_hash(s), number |-> latest_number(s)])

\* BlockWithTxs::new, BlockWithTxHashes::new, BlockWithReceipts::new
BlockView(block_hash, body, finality, receipts) ==
    [hash |-> block_hash, block |-> body, status |-> finality, receipts |-> receipts]

block_with_txs(s, id) ==
    IF ~block_hash_by_id(s, id).is_some THEN Err("BlockNotFound")
    ELSE IF ~block(s, id).is_some THEN Panic("should exist if hash exists")
    ELSE IF ~block_status(s, id).is_some THEN Panic("should exist if block exists")
    ELSE Ok(BlockView(block_hash_by_id(s, id).value, block(s, id).value,
                      block_status(s, id).value, <<>>))

block_with_receipts(s, id) ==
    IF ~block_hash_by_id(s, id).is_some THEN Err("BlockNotFound")
    ELSE IF ~block(s, id).is_some THEN Panic("should exist if hash exists")
    ELSE IF ~block_status(s, id).is_some THEN Panic("should exist if block exists")
    ELSE IF ~receipts_by_block(s, id).is_some THEN Panic("should exist if block exists")
    ELSE Ok(BlockView(block_hash_by_id(s, id).value, block(s, id).value,
                      block_status(s, id).value, receipts_by_block(s, id).value))

block_with_txs_hashes(s, id) ==
    IF ~block_hash_by_id(s, id).is_some THEN Err("BlockNotFound")
    ELSE IF ~block_with_tx_hashes(s, id).is_some THEN Panic("should exist if block exists")
    ELSE IF ~block_status(s, id).is_some THEN Panic("should exist if block exists")
    ELSE Ok(BlockView(block_hash_by_id(s, id).value, block_with_tx_hashes(s, id).value,
                      block_status(s, id).value, <<>>))

block_transaction_count(s, id) ==
    IF ~transaction_count_by_block(s, id).is_some THEN Err("BlockNotFound")
    ELSE Ok(transaction_count_by_block(s, id).value)

transaction_by_block_id_and_index(s, id, index) ==
    IF ~transaction_by_block_and_idx(s, id, index).is_some THEN Err("TxnHashNotFound")
    ELSE Ok(transaction_by_block_and_idx(s, id, index).value)

transaction(s, tx_hash) ==
    IF ~transaction_by_hash(s, tx_hash).is_some THEN Err("TxnHashNotFound")
    ELSE Ok(transaction_by_hash(s, tx_hash).value)

\* TransactionStatus::AcceptedOnL1(exec_status) / AcceptedOnL2(exec_status)
TransactionStatus(finality, exec_status) ==
    [finality_status |-> finality, execution_status |-> exec_status]

transaction_status(s, tx_hash) ==
    IF ~TransactionStatusProvider_transaction_status(s, tx_hash).is_some
    THEN Err("TxnHashNotFound")
    ELSE IF ~receipt_by_hash(s, tx_hash).is_some THEN Panic("must exist")
    ELSE Ok(TransactionStatus(
                TransactionStatusProvider_transaction_status(s, tx_hash).value,
                IF receipt_by_hash(s, tx_hash).value.reverted THEN "Reverted"
                ELSE "Succeeded"))

\* ReceiptBlock::Block { block_hash, block_number } and TxReceiptWithBlockInfo::new
ReceiptBlock(block_hash, number) == [block_hash |-> block_hash, block_number |-> number]
TxReceiptWithBlockInfo(receipt_block, tx_hash, finality, found) ==
    [block |-> receipt_block, transaction_hash |-> tx_hash,
     finality_status |-> finality, receipt |-> found]

\* receipt: `let (num, hash) = ...` rebinds hash, the method's argument, to
\* the hash of the block; every use of hash below that line is the block's.
receipt(s, tx_hash) ==
    IF ~receipt_by_hash(s, tx_hash).is_some THEN Err("TxnHashNotFound")
    ELSE IF ~transaction_block_num_and_hash(s, tx_hash).is_some THEN Panic("must exist")
    ELSE LET num == transaction_block_num_and_hash(s, tx_hash).value[1]
             hash == transaction_block_num_and_hash(s, tx_hash).value[2]
         IN  IF ~TransactionStatusProvider_transaction_status(s, hash).is_some
             THEN Panic("must exist")
             ELSE Ok(TxReceiptWithBlockInfo(
                        ReceiptBlock(hash, num), hash,
                        TransactionStatusProvider_transaction_status(s, hash).value,
                        receipt_by_hash(s, tx_hash).value))

\* StateUpdate { new_root, old_root, block_hash, state_diff }
StateUpdate(new_root, old_root, block_hash, state_diff) ==
    [new_root |-> new_root, old_root |-> old_root, block_hash |-> block_hash,
     state_diff |-> state_diff]

block_state_update(s, id) ==
    IF ~block_hash_by_id(s, id).is_some THEN Err("BlockNotFound")
    ELSE IF ~state_root(s, id).is_some THEN Panic("should exist if block exists")
    ELSE LET hash == block_hash_by_id(s, id).value
             block_num == block_number_by_hash(s, hash)
         IN  IF ~block_num.is_some THEN Panic("should exist if block exists")
             ELSE IF block_num.value # 0 /\ ~state_root(s, Num(block_num.value - 1)).is_some
             THEN Panic("should exist if not genesis")
             ELSE IF ~state_update(s, id).is_some THEN Panic("should exist if block exists")
             ELSE Ok(StateUpdate(state_root(s, id).value,
                                 IF block_num.value = 0 THEN 0
                                 ELSE state_root(s, Num(block_num.value - 1)).value,
                                 hash, state_update(s, id).value))

(***************************************************************************)
(* The calls of an RPC client: one action per method of StarknetProvider,  *)
(* on any argument.  The storage is read, never written.                   *)
(***************************************************************************)
\* The block ids a client asks for: every number and every hash a chain can
\* hold, and one past them.
BlockIds ==
    {Num(n) : n \in 0..MaxBlocks} \cup {Hash(BlockHashOf(n)) : n \in 0..MaxBlocks}

\* The transaction hashes a client asks for: every hash a transaction of a
\* chain can have, those of a block past the chain, and the hash of a block.
TxHashes ==
    {TxHashOf(n, i) : n \in 0..MaxBlocks, i \in 0..(MaxTxs - 1)} \cup {BlockHashOf(0)}

TxIndexes == 0..MaxTxs

Query(method, argument) == [method |-> method, argument |-> argument]

\* A call of a method records the query with what the method returns.
BlockNumber ==
    /\ query' = Query("block_number", <<>>)
    /\ reply' = block_number(store)
    /\ UNCHANGED store
    /\ UNCHANGED migration_vars

BlockHashAndNumber ==
    /\ query' = Query("block_hash_and_number", <<>>)
    /\ reply' = block_hash_and_number(store)
    /\ UNCHANGED store
    /\ UNCHANGED migration_vars

BlockWithTxs ==
    \E id \in BlockIds :
        /\ query' = Query("block_with_txs", id)
        /\ reply' = block_with_txs(store, id)
        /\ UNCHANGED store
        /\ UNCHANGED migration_vars

BlockWithTxHashes ==
    \E id \in BlockIds :
        /\ query' = Query("block_with_txs_hashes", id)
        /\ reply' = block_with_txs_hashes(store, id)
        /\ UNCHANGED store
        /\ UNCHANGED migration_vars

BlockWithReceipts ==
    \E id \in BlockIds :
        /\ query' = Query("block_with_receipts", id)
        /\ reply' = block_with_receipts(store, id)
        /\ UNCHANGED store
        /\ UNCHANGED migration_vars

BlockStateUpdate ==
    \E id \in BlockIds :
        /\ query' = Query("block_state_update", id)
        /\ reply' = block_state_update(store, id)
        /\ UNCHANGED store
        /\ UNCHANGED migration_vars

BlockTransactionCount ==
    \E id \in BlockIds :
        /\ query' = Query("block_transaction_count", id)
        /\ reply' = block_transaction_count(store, id)
        /\ UNCHANGED store
        /\ UNCHANGED migration_vars

Transaction ==
    \E tx_hash \in TxHashes :
        /\ query' = Query("transaction", tx_hash)
        /\ reply' = transaction(store, tx_hash)
        /\ UNCHANGED store
        /\ UNCHANGED migration_vars

TransactionByBlockIdAndIndex ==
    \E id \in BlockIds : \E index \in TxIndexes :
        /\ query' = Query("transaction_by_block_id_and_index", <<id, index>>)
        /\ reply' = transaction_by_block_id_and_index(store, id, index)
        /\ UNCHANGED store
        /\ UNCHANGED migration_vars

TransactionStatusOf ==
    \E tx_hash \in TxHashes :
        /\ query' = Query("transaction_status", tx_hash)
        /\ reply' = transaction_status(store, tx_hash)
        /\ UNCHANGED store
        /\ UNCHANGED migration_vars

Receipt ==
    \E tx_hash \in TxHashes :
        /\ query' = Query("receipt", tx_hash)
        /\ reply' = receipt(store, tx_hash)
        /\ UNCHANGED store
        /\ UNCHANGED migration_vars

ProviderNext ==
    \/ BlockNumber
    \/ BlockHashAndNumber
    \/ BlockWithTxs
    \/ BlockWithTxHashes
    \/ BlockWithReceipts
    \/ BlockStateUpdate
    \/ BlockTransactionCount
    \/ Transaction
    \/ TransactionByBlockIdAndIndex
    \/ TransactionStatusOf
    \/ Receipt

\* A provider over the storage of any chain; no migration is under way.
ProviderInit ==
    /\ store \in {StoreOf(shape) : shape \in ChainShapes}
    /\ query = NoQuery
    /\ reply = NoReply
    /\ diff = [world_status |-> "Synced", namespaces |-> <<>>, resources |-> <<>>,
               remote_writers |-> {}, remote_owners |-> {}]
    /\ profile_config \in Configs({NoMigration}, {<<>>}, {<<>>}, {NoInitCallArgs})
    /\ chain = ChainOf(diff)
    /\ pc = "done"
    /\ phase = 0
    /\ invoker = <<>>
    /\ declarer = <<>>
    /\ next_call = 1
    /\ log = <<>>
    /\ result = Returned("Ok", "", 0, 0)
    /\ run = MaxRuns

SpecProvider == ProviderInit /\ [][ProviderNext]_vars

(***************************************************************************)
(* C21.  receipt(hash), for a transaction stored with a receipt, a         *)
(* containing block and a finality status, returns a receipt record whose  *)
(* transaction hash is the requested hash, whose finality status is that   *)
(* of the requested transaction, and whose block hash and number are those *)
(* of the block containing it.                                             *)
(***************************************************************************)
\* The last call was receipt, for a transaction the storage holds whole.
ReceiptOfStored ==
    /\ query.method = "receipt"
    /\ query.argument \in DOMAIN store.receipts
    /\ query.argument \in DOMAIN store.tx_locations
    /\ query.argument \in DOMAIN store.tx_statuses

C21_ReceiptOfRequestedTransaction ==
    ReceiptOfStored =>
        LET number == store.tx_locations[query.argument][1]
        IN  /\ reply.kind = "Ok"
            /\ reply.value.transaction_hash = query.argument
            /\ reply.value.finality_status = store.tx_statuses[query.argument]
            /\ reply.value.block = ReceiptBlock(store.block_hashes[number], number)
            /\ reply.value.receipt = store.receipts[query.argument]

\* What the code does instead: the status is looked up under the hash of the
\* block, which is no transaction's, and the call panics.
C21_ReceiptLooksUpBlockHash ==
    ReceiptOfStored =>
        /\ store.block_hashes[store.tx_locations[query.argument][1]]
               \notin DOMAIN store.tx_statuses
        /\ reply = Panic("must exist")

\* receipt was called for a stored transaction of the second block.
C21_ReceiptCalled ==
    /\ ReceiptOfStored
    /\ store.tx_locations[query.argument][1] = 1

(***************************************************************************)
(* C22.  On a consistent store no lookup panics, and a missing item is an  *)
(* error value: an unknown block id yields BlockNotFound from              *)
(* block_with_txs, block_with_txs_hashes, block_with_receipts,             *)
(* block_transaction_count and block_state_update; an unknown transaction  *)
(* hash or index yields TxnHashNotFound from transaction,                  *)
(* transaction_by_block_id_and_index, transaction_status and receipt.      *)
(***************************************************************************)
BlockLookups ==
    {"block_with_txs", "block_with_txs_hashes", "block_with_receipts",
     "block_transaction_count", "block_state_update"}

TransactionLookups == {"transaction", "transaction_status", "receipt"}

\* The number of the block an id names, or -1 when the storage has no such block.
NumberOf(id) ==
    IF id.tag = "Num"
    THEN IF id.value \in DOMAIN store.block_hashes THEN id.value ELSE -1
    ELSE IF \E n \in DOMAIN store.block_hashes : store.block_hashes[n] = id.value
         THEN CHOOSE n \in DOMAIN store.block_hashes : store.block_hashes[n] = id.value
         ELSE -1

\* The last call asked for something the storage does not hold.
Missing ==
    \/ query.method \in BlockLookups /\ NumberOf(query.argument) = -1
    \/ query.method \in TransactionLookups /\ query.argument \notin DOMAIN store.transactions
    \/ /\ query.method = "transaction_by_block_id_and_index"
       /\ \/ NumberOf(query.argument[1]) = -1
          \/ query.argument[2] >= Len(store.block_bodies[NumberOf(query.argument[1])])

MissingIsAnError ==
    /\ Missing /\ query.method \in BlockLookups => reply = Err("BlockNotFound")
    /\ Missing /\ query.method \notin BlockLookups => reply = Err("TxnHashNotFound")
    /\ reply.kind = "Err" => Missing

C22_MissingIsAnErrorNeverAPanic ==
    /\ reply.kind # "Panic"
    /\ MissingIsAnError

\* What the code does: missing items are error values from every lookup, and
\* the one panic is receipt's, for a transaction the storage holds (C21).
C22_OnlyReceiptPanics ==
    /\ MissingIsAnError
    /\ reply.kind = "Panic" => ReceiptOfStored

\* receipt panicked for a transaction the storage holds.
C22_ReceiptPanicked == ReceiptOfStored /\ reply.kind = "Panic"

\* Each lookup was asked for a missing item.
C22_MissingBlockAsked == Missing /\ query.method = "block_state_update"
C22_MissingTransactionAsked == Missing /\ query.method = "receipt"
C22_MissingIndexAsked ==
    /\ Missing
    /\ query.method = "transaction_by_block_id_and_index"
    /\ NumberOf(query.argument[1]) # -1

====
